---- MODULE Spec2Model ----
(***************************************************************************)
(* Verification model of ext-php-rs: the ordered associative array         *)
(* (src/types/array.rs) over the host hashtable, and the bailout bridge    *)
(* (src/zend/try_catch.rs).                                                *)
(*                                                                         *)
(* Integers keep a machine width: zend_long / i64 is LongBits wide and     *)
(* zend_ulong / u64 is the same width unsigned, so the `as zend_ulong`     *)
(* casts of array.rs wrap exactly as in the code.                          *)
(***************************************************************************)
EXTENDS Integers, Sequences, FiniteSets, TLC

VARIABLES
    \* the array and the insertion-ordered map it implements
    ht, order,
    \* Vec<T> <-> array: the Vec, the conversion, its position and its result
    vxs, vks, vmode, vpc, vi, vout,
    \* the bailout bridge: the active do_try_catch calls, the host's
    \* EG(bailout), the boxed results, a panic in flight, the last call that
    \* ended and what the outermost caller saw
    tc_stack, eg_bailout, tc_heap, tc_unwind, tc_done, tc_outer,
    \* the host allocations handed to ZBox owners, and the last call on them
    objs, olast

vecVars == <<vxs, vks, vmode, vpc, vi, vout>>
tcVars == <<tc_stack, eg_bailout, tc_heap, tc_unwind, tc_done, tc_outer>>
objVars == <<objs, olast>>
vars == <<ht, order, vecVars, tcVars, objVars>>

(***************************************************************************)
(* Bounds of the model.                                                    *)
(***************************************************************************)
\* width in bits of zend_long (i64 in the code)
LongBits == 5
\* largest number of slots (nNumUsed) an array of the model may hold
MaxUsed == 3

\* ffi::HT_MIN_SIZE, the size ZendHashTable::new() asks for
HT_MIN_SIZE == 8

TwoW == 2 ^ LongBits
ZEND_LONG_MAX == (2 ^ (LongBits - 1)) - 1
ZEND_LONG_MIN == 0 - (2 ^ (LongBits - 1))

\* `index as zend_ulong`: the two's complement reinterpretation
AsUlong(n) == n % TwoW
\* the key reported without the reinterpretation as a signed integer
AsLong_Unsigned(u) == u

\* the host stores the unsigned h into a zend_long when it reports a key
AsLong(u) == IF u >= 2 ^ (LongBits - 1) THEN u - TwoW ELSE u

\* Option<T>: None is the empty tuple, Some(x) the one-element tuple
None == <<>>
Some(x) == <<x>>

(***************************************************************************)
(* Strings are sequences of one-character strings; "NUL" is the nul byte.  *)
(***************************************************************************)
Digits == <<"0", "1", "2", "3", "4", "5", "6", "7", "8", "9">>

IsDigit(c) == \E i \in 1..10 : Digits[i] = c

DigitVal(c) == (CHOOSE i \in 1..10 : Digits[i] = c) - 1

RECURSIVE ParseDigits(_, _, _)
ParseDigits(ds, acc, positive) ==
    IF ds = <<>> THEN Some(acc)
    ELSE IF ~IsDigit(Head(ds)) THEN None
    ELSE LET d == DigitVal(Head(ds))
             nxt == IF positive THEN acc * 10 + d ELSE acc * 10 - d
         IN IF nxt > ZEND_LONG_MAX \/ nxt < ZEND_LONG_MIN THEN None
            ELSE ParseDigits(Tail(ds), nxt, positive)

\* i64::from_str: optional sign, then one or more decimal digits, in range
ParseI64(s) ==
    IF s = <<>> THEN None
    ELSE IF Head(s) \in {"+", "-"}
         THEN IF Tail(s) = <<>> THEN None
              ELSE ParseDigits(Tail(s), 0, Head(s) = "+")
         ELSE ParseDigits(s, 0, TRUE)

RECURSIVE NatStr(_)
NatStr(n) == IF n < 10 THEN <<Digits[n + 1]>>
             ELSE NatStr(n \div 10) \o <<Digits[(n % 10) + 1]>>

\* Display for i64, the canonical decimal representation
DecStr(n) == IF n < 0 THEN <<"-">> \o NatStr(0 - n) ELSE NatStr(n)

\* CString::new(key) is an error when the key holds a nul byte
HasNul(s) == \E i \in 1..Len(s) : s[i] = "NUL"

(***************************************************************************)
(* Tagged values (Zval) and the conversions of the element types.          *)
(***************************************************************************)
ZLong(n) == [tag |-> "Long", v |-> n, s |-> <<>>]
ZStr(s) == [tag |-> "String", v |-> 0, s |-> s]
ZNull == [tag |-> "Null", v |-> 0, s |-> <<>>]
ZUndef == [tag |-> "Undef", v |-> 0, s |-> <<>>]
\* what `&*ptr` names when the host returned a null data pointer
ZNullRef == [tag |-> "NullDeref", v |-> 0, s |-> <<>>]

\* native values handed to insert/push: integers, strings and one value whose
\* conversion to a Zval fails
NInt(n) == [kind |-> "Int", n |-> n, s |-> <<>>]
NStr(s) == [kind |-> "Str", n |-> 0, s |-> s]
NBad == [kind |-> "Bad", n |-> 0, s |-> <<>>]
\* a value that already is a Zval (IntoZval for Zval)
NZval(z) == [kind |-> CASE z.tag = "Long" -> "ZLong"
                       [] z.tag = "String" -> "ZString"
                       [] OTHER -> "ZNull",
             n |-> z.v, s |-> z.s]
\* the unit value, whose Zval is null
NNull == [kind |-> "Null", n |-> 0, s |-> <<>>]

\* IntoZval::into_zval(false): Some(zval), or None for the conversion error
IntoZval(x) ==
    CASE x.kind = "Int" -> Some(ZLong(x.n))
      [] x.kind = "Str" -> Some(ZStr(x.s))
      [] x.kind = "ZLong" -> Some(ZLong(x.n))
      [] x.kind = "ZString" -> Some(ZStr(x.s))
      [] x.kind \in {"Null", "ZNull"} -> Some(ZNull)
      [] OTHER -> None

\* FromZval for i64 (Zval::long)
FromZvalLong(z) == IF z.tag = "Long" THEN Some(NInt(z.v)) ELSE None

(***************************************************************************)
(* The host hashtable (ffi::HashTable).  arData is the bucket array: slot  *)
(* i of the model is bucket i-1 of the host, nNumUsed = Len(arData).  A    *)
(* deleted bucket stays in place as an IS_UNDEF hole until the tail is     *)
(* trimmed or the table is rehashed.  A packed table keeps key i in bucket *)
(* i; a hash table appends buckets in insertion order.                     *)
(***************************************************************************)
UndefSlot == [t |-> "U", h |-> 0, key |-> <<>>, val |-> ZUndef]
LongSlot(h, z) == [t |-> "L", h |-> h, key |-> <<>>, val |-> z]
StrSlot(k, z) == [t |-> "S", h |-> 0, key |-> k, val |-> z]

nNumUsed(t) == Len(t.arData)

\* _zend_new_array(size)
zend_new_array(size) ==
    [flags |-> "uninit", arData |-> <<>>, nNumOfElements |-> 0,
     nNextFreeElement |-> ZEND_LONG_MIN,
     nTableSize |-> IF size < HT_MIN_SIZE THEN HT_MIN_SIZE ELSE size]

\* zend_array_count
zend_array_count(t) == t.nNumOfElements

\* _zend_hash_get_valid_pos: skip forward over holes
RECURSIVE zend_hash_get_valid_pos(_, _)
zend_hash_get_valid_pos(t, pos) ==
    IF pos < nNumUsed(t) /\ t.arData[pos + 1].t = "U"
    THEN zend_hash_get_valid_pos(t, pos + 1)
    ELSE pos

\* bucket index (0-based) of integer key h, or -1
IndexBucket(t, h) ==
    CASE t.flags = "uninit" -> -1
      [] t.flags = "packed" ->
            IF h < nNumUsed(t) /\ t.arData[h + 1].t # "U" THEN h ELSE -1
      [] OTHER ->
            IF \E i \in 1..nNumUsed(t) : t.arData[i].t = "L" /\ t.arData[i].h = h
            THEN (CHOOSE i \in 1..nNumUsed(t) :
                      t.arData[i].t = "L" /\ t.arData[i].h = h) - 1
            ELSE -1

\* bucket index (0-based) of string key k, or -1
StrBucket(t, k) ==
    IF t.flags = "hash"
       /\ \E i \in 1..nNumUsed(t) : t.arData[i].t = "S" /\ t.arData[i].key = k
    THEN (CHOOSE i \in 1..nNumUsed(t) :
              t.arData[i].t = "S" /\ t.arData[i].key = k) - 1
    ELSE -1

\* zend_hash_index_find: pointer to the value, or null
zend_hash_index_find(t, h) ==
    LET i == IndexBucket(t, h) IN IF i < 0 THEN None ELSE Some(t.arData[i + 1].val)

\* zend_hash_str_find
zend_hash_str_find(t, k) ==
    LET i == StrBucket(t, k) IN IF i < 0 THEN None ELSE Some(t.arData[i + 1].val)

RECURSIVE TrimTail(_)
TrimTail(bs) ==
    IF bs # <<>> /\ bs[Len(bs)].t = "U" THEN TrimTail(SubSeq(bs, 1, Len(bs) - 1))
    ELSE bs

\* _zend_hash_del_el_ex / _zend_hash_packed_del_val on bucket i (0-based)
DelBucket(t, i) ==
    [t EXCEPT !.nNumOfElements = @ - 1,
              !.arData = IF i = nNumUsed(t) - 1
                         THEN TrimTail(SubSeq(t.arData, 1, i))
                         ELSE [t.arData EXCEPT ![i + 1] = UndefSlot]]

\* zend_hash_index_del: SUCCESS (0) or FAILURE (-1)
zend_hash_index_del(t, h) ==
    LET i == IndexBucket(t, h)
    IN IF i < 0 THEN [ht |-> t, result |-> -1]
       ELSE [ht |-> DelBucket(t, i), result |-> 0]

\* zend_hash_str_del
zend_hash_str_del(t, k) ==
    LET i == StrBucket(t, k)
    IN IF i < 0 THEN [ht |-> t, result |-> -1]
       ELSE [ht |-> DelBucket(t, i), result |-> 0]

\* zend_hash_clean
zend_hash_clean(t) ==
    [t EXCEPT !.arData = <<>>, !.nNumOfElements = 0,
              !.nNextFreeElement = ZEND_LONG_MIN]

\* zend_hash_packed_to_hash: every bucket, holes included, keeps its place
zend_hash_packed_to_hash(t) == [t EXCEPT !.flags = "hash"]

\* zend_hash_rehash: drop the holes, keep the order
zend_hash_rehash(t) ==
    [t EXCEPT !.arData = SelectSeq(t.arData, LAMBDA b : b.t # "U")]

\* ZEND_HASH_IF_FULL_DO_RESIZE
IfFullDoResize(t) ==
    IF nNumUsed(t) < t.nTableSize THEN t
    ELSE IF nNumUsed(t) > t.nNumOfElements + (t.nNumOfElements \div 32)
         THEN zend_hash_rehash(t)
         ELSE [t EXCEPT !.nTableSize = 2 * @]

\* append a bucket for integer key h to a hash table
AddToHash(t, h, z) ==
    [t EXCEPT !.arData = Append(@, LongSlot(h, z)),
              !.nNumOfElements = @ + 1,
              !.nNextFreeElement =
                  IF AsLong(h) >= @
                  THEN (IF AsLong(h) < ZEND_LONG_MAX THEN AsLong(h) + 1
                        ELSE ZEND_LONG_MAX)
                  ELSE @]

\* write key h into bucket h of a packed table, filling the gap with holes
AddToPacked(t, h, z) ==
    [t EXCEPT !.flags = "packed",
              !.arData = [i \in 1..(h + 1) |->
                             IF i <= nNumUsed(t) THEN t.arData[i]
                             ELSE IF i = h + 1 THEN LongSlot(h, z)
                             ELSE UndefSlot],
              !.nNumOfElements = @ + 1,
              !.nNextFreeElement = h + 1]

ReplaceVal(t, i, z) == [t EXCEPT !.arData[i + 1].val = z]

\* _zend_hash_index_add_or_update_i; `next` is HASH_ADD | HASH_ADD_NEXT
\* (zend_hash_next_index_insert), otherwise HASH_UPDATE.  ok = FALSE is the
\* null return.
IndexAddOrUpdate(t, h0, z, next) ==
    LET h == IF next /\ AsLong(h0) = ZEND_LONG_MIN THEN 0 ELSE h0
        i == IndexBucket(t, h)
    IN CASE t.flags = "packed" ->
              IF h < nNumUsed(t)
              THEN IF i >= 0
                   THEN IF next THEN [ht |-> t, ok |-> FALSE]
                        ELSE [ht |-> ReplaceVal(t, i, z), ok |-> TRUE]
                   ELSE [ht |-> AddToHash(zend_hash_packed_to_hash(t), h, z),
                         ok |-> TRUE]
              ELSE IF h < t.nTableSize
                   THEN [ht |-> AddToPacked(t, h, z), ok |-> TRUE]
              ELSE IF (h \div 2) < t.nTableSize
                      /\ (t.nTableSize \div 2) < t.nNumOfElements
                   THEN [ht |-> AddToPacked([t EXCEPT !.nTableSize = 2 * @], h, z),
                         ok |-> TRUE]
              ELSE [ht |-> AddToHash(zend_hash_packed_to_hash(
                               IF nNumUsed(t) >= t.nTableSize
                               THEN [t EXCEPT !.nTableSize = 2 * @] ELSE t), h, z),
                    ok |-> TRUE]
         [] t.flags = "uninit" ->
              IF h < t.nTableSize
              THEN [ht |-> AddToPacked(t, h, z), ok |-> TRUE]
              ELSE [ht |-> AddToHash([t EXCEPT !.flags = "hash"], h, z), ok |-> TRUE]
         [] OTHER ->
              IF i >= 0
              THEN IF next THEN [ht |-> t, ok |-> FALSE]
                   ELSE [ht |-> ReplaceVal(t, i, z), ok |-> TRUE]
              ELSE [ht |-> AddToHash(IfFullDoResize(t), h, z), ok |-> TRUE]

\* zend_hash_index_update
zend_hash_index_update(t, h, z) == IndexAddOrUpdate(t, h, z, FALSE)

\* zend_hash_next_index_insert
zend_hash_next_index_insert(t, z) ==
    IndexAddOrUpdate(t, AsUlong(t.nNextFreeElement), z, TRUE)

\* zend_hash_str_update
zend_hash_str_update(t, k, z) ==
    LET t1 == IF t.flags = "hash" THEN t ELSE [t EXCEPT !.flags = "hash"]
        i == StrBucket(t1, k)
    IN IF i >= 0 THEN [ht |-> ReplaceVal(t1, i, z), ok |-> TRUE]
       ELSE LET t2 == IfFullDoResize(t1)
            IN [ht |-> [t2 EXCEPT !.arData = Append(@, StrSlot(k, z)),
                                  !.nNumOfElements = @ + 1],
                ok |-> TRUE]

\* zend_hash_get_current_key_type_ex: 1 string, 2 long, 3 no element
zend_hash_get_current_key_type_ex(t, pos) ==
    LET idx == zend_hash_get_valid_pos(t, pos)
    IN IF idx < nNumUsed(t)
       THEN (IF t.arData[idx + 1].t = "S" THEN 1 ELSE 2)
       ELSE 3

\* zend_hash_get_current_key_zval_ex: the key written into a fresh zval
zend_hash_get_current_key_zval_ex(t, pos) ==
    LET idx == zend_hash_get_valid_pos(t, pos)
    IN IF idx >= nNumUsed(t) THEN ZNull
       ELSE IF t.arData[idx + 1].t = "S" THEN ZStr(t.arData[idx + 1].key)
       ELSE ZLong(AsLong(t.arData[idx + 1].h))

\* zend_hash_get_current_data_ex: pointer to the value, or null
zend_hash_get_current_data_ex(t, pos) ==
    LET idx == zend_hash_get_valid_pos(t, pos)
    IN IF idx < nNumUsed(t) THEN Some(t.arData[idx + 1].val) ELSE None

RECURSIVE ScanForward(_, _)
ScanForward(t, idx) ==
    IF idx + 1 >= nNumUsed(t) THEN nNumUsed(t)
    ELSE IF t.arData[idx + 2].t # "U" THEN idx + 1
    ELSE ScanForward(t, idx + 1)

\* zend_hash_move_forward_ex: the new position
zend_hash_move_forward_ex(t, pos) ==
    LET idx == zend_hash_get_valid_pos(t, pos)
    IN IF idx < nNumUsed(t) THEN ScanForward(t, idx) ELSE pos

RECURSIVE ScanBackward(_, _)
ScanBackward(t, idx) ==
    IF idx = 0 THEN nNumUsed(t)
    ELSE IF t.arData[idx].t # "U" THEN idx - 1
    ELSE ScanBackward(t, idx - 1)

\* zend_hash_move_backwards_ex: the new position (no valid-position step)
zend_hash_move_backwards_ex(t, pos) ==
    IF pos < nNumUsed(t) THEN ScanBackward(t, pos) ELSE pos

(***************************************************************************)
(* src/types/array.rs: ArrayKey and the operations of ZendHashTable.       *)
(***************************************************************************)
\* enum ArrayKey { Long(i64), String(String), Str(&str) }
KLong(n) == [t |-> "Long", n |-> n, s |-> <<>>]
KString(s) == [t |-> "String", n |-> 0, s |-> s]
KStr(s) == [t |-> "Str", n |-> 0, s |-> s]

\* is_long that takes every key for an integer
is_long_Always(k) == TRUE

\* ArrayKey::is_long
is_long(k) == k.t = "Long"

\* FromZval for ArrayKey
ArrayKey_from_zval(z) ==
    IF z.tag = "Long" THEN Some(KLong(z.v))
    ELSE IF z.tag = "String" THEN Some(KString(z.s))
    ELSE None

\* ZendHashTable::new
new == zend_new_array(HT_MIN_SIZE)

\* ZendHashTable::len
len(t) == zend_array_count(t)

\* get with the string arms sent to the string lookup unparsed
get_NoCoercion(t, key) ==
    CASE key.t = "Long" -> zend_hash_index_find(t, AsUlong(key.n))
      [] OTHER -> IF HasNul(key.s) THEN None ELSE zend_hash_str_find(t, key.s)

\* ZendHashTable::get
get(t, key) ==
    CASE key.t = "Long" -> zend_hash_index_find(t, AsUlong(key.n))
      [] key.t = "String" ->
            IF ParseI64(key.s) # None
            THEN zend_hash_index_find(t, AsUlong(ParseI64(key.s)[1]))
            ELSE IF HasNul(key.s) THEN None
            ELSE zend_hash_str_find(t, key.s)
      [] OTHER ->
            IF ParseI64(key.s) # None
            THEN zend_hash_index_find(t, AsUlong(ParseI64(key.s)[1]))
            ELSE IF HasNul(key.s) THEN None
            ELSE zend_hash_str_find(t, key.s)

\* ZendHashTable::get_mut
get_mut(t, key) ==
    CASE key.t = "Long" -> zend_hash_index_find(t, AsUlong(key.n))
      [] key.t = "String" ->
            IF ParseI64(key.s) # None
            THEN zend_hash_index_find(t, AsUlong(ParseI64(key.s)[1]))
            ELSE IF HasNul(key.s) THEN None
            ELSE zend_hash_str_find(t, key.s)
      [] OTHER ->
            IF ParseI64(key.s) # None
            THEN zend_hash_index_find(t, AsUlong(ParseI64(key.s)[1]))
            ELSE IF HasNul(key.s) THEN None
            ELSE zend_hash_str_find(t, key.s)

\* ZendHashTable::get_index
get_index(t, key) == zend_hash_index_find(t, AsUlong(key))

\* ZendHashTable::get_index_mut
get_index_mut(t, key) == zend_hash_index_find(t, AsUlong(key))

\* the host's result read with the comparison turned round
DelResult_Inverted(r) ==
    [ht |-> r.ht, ret |-> IF r.result > 0 THEN None ELSE Some("unit")]

\* Option<()> from the host's zend_result
DelResult(r) == [ht |-> r.ht, ret |-> IF r.result < 0 THEN None ELSE Some("unit")]

\* ZendHashTable::remove
remove(t, key) ==
    CASE key.t = "Long" -> DelResult(zend_hash_index_del(t, AsUlong(key.n)))
      [] key.t = "String" ->
            IF ParseI64(key.s) # None
            THEN DelResult(zend_hash_index_del(t, AsUlong(ParseI64(key.s)[1])))
            ELSE IF HasNul(key.s) THEN [ht |-> t, ret |-> None]
            ELSE DelResult(zend_hash_str_del(t, key.s))
      [] OTHER ->
            IF ParseI64(key.s) # None
            THEN DelResult(zend_hash_index_del(t, AsUlong(ParseI64(key.s)[1])))
            ELSE IF HasNul(key.s) THEN [ht |-> t, ret |-> None]
            ELSE DelResult(zend_hash_str_del(t, key.s))

\* ZendHashTable::remove_index
remove_index(t, key) == DelResult(zend_hash_index_del(t, AsUlong(key)))

\* insert with the string arms sent to the string update unparsed
insert_NoCoercion(t, key, val) ==
    IF IntoZval(val) = None THEN [ht |-> t, ret |-> "ErrValue"]
    ELSE IF key.t = "Long"
         THEN [ht |-> zend_hash_index_update(t, AsUlong(key.n), IntoZval(val)[1]).ht,
               ret |-> "Ok"]
         ELSE IF HasNul(key.s) THEN [ht |-> t, ret |-> "ErrKey"]
         ELSE [ht |-> zend_hash_str_update(t, key.s, IntoZval(val)[1]).ht,
               ret |-> "Ok"]

\* ZendHashTable::insert.  ret: "Ok", "ErrValue" (into_zval failed) or
\* "ErrKey" (CString::new failed); the host's return value is not read.
insert(t, key, val) ==
    IF IntoZval(val) = None THEN [ht |-> t, ret |-> "ErrValue"]
    ELSE LET z == IntoZval(val)[1]
         IN CASE key.t = "Long" ->
                   [ht |-> zend_hash_index_update(t, AsUlong(key.n), z).ht,
                    ret |-> "Ok"]
              [] key.t = "String" ->
                   IF ParseI64(key.s) # None
                   THEN [ht |-> zend_hash_index_update(
                                    t, AsUlong(ParseI64(key.s)[1]), z).ht,
                         ret |-> "Ok"]
                   ELSE IF HasNul(key.s) THEN [ht |-> t, ret |-> "ErrKey"]
                   ELSE [ht |-> zend_hash_str_update(t, key.s, z).ht, ret |-> "Ok"]
              [] OTHER ->
                   IF ParseI64(key.s) # None
                   THEN [ht |-> zend_hash_index_update(
                                    t, AsUlong(ParseI64(key.s)[1]), z).ht,
                         ret |-> "Ok"]
                   ELSE IF HasNul(key.s) THEN [ht |-> t, ret |-> "ErrKey"]
                   ELSE [ht |-> zend_hash_str_update(t, key.s, z).ht, ret |-> "Ok"]

\* insert_at_index that stores a null for a value it could not convert
insert_at_index_Unchecked(t, key, val) ==
    [ht |-> zend_hash_index_update(
                t, AsUlong(key),
                IF IntoZval(val) = None THEN ZNull ELSE IntoZval(val)[1]).ht,
     ret |-> "Ok"]

\* insert_at_index that appends when the table has no holes
insert_at_index_Append(t, key, val) ==
    IF IntoZval(val) = None THEN [ht |-> t, ret |-> "ErrValue"]
    ELSE [ht |-> IF nNumUsed(t) = zend_array_count(t) /\ zend_array_count(t) > 0
                 THEN zend_hash_next_index_insert(t, IntoZval(val)[1]).ht
                 ELSE zend_hash_index_update(t, AsUlong(key), IntoZval(val)[1]).ht,
          ret |-> "Ok"]

\* ZendHashTable::insert_at_index
insert_at_index(t, key, val) ==
    IF IntoZval(val) = None THEN [ht |-> t, ret |-> "ErrValue"]
    ELSE [ht |-> zend_hash_index_update(t, AsUlong(key), IntoZval(val)[1]).ht,
          ret |-> "Ok"]

\* push that computes the next index from the element count, one too far
push_AtCount(t, val) ==
    IF IntoZval(val) = None THEN [ht |-> t, ret |-> "ErrValue"]
    ELSE [ht |-> zend_hash_index_update(t, AsUlong(zend_array_count(t) + 1),
                                        IntoZval(val)[1]).ht,
          ret |-> "Ok"]

\* ZendHashTable::push
push(t, val) ==
    IF IntoZval(val) = None THEN [ht |-> t, ret |-> "ErrValue"]
    ELSE [ht |-> zend_hash_next_index_insert(t, IntoZval(val)[1]).ht,
          ret |-> "Ok"]

\* ZendHashTable::clear
clear(t) == zend_hash_clean(t)

(***************************************************************************)
(* Iter: the forward and the backward walk.                                *)
(***************************************************************************)
\* Iter::new
Iter_new(t) ==
    [current_num |-> 0,
     end_num |-> len(t),
     pos |-> 0,
     end_pos |-> IF t.nNumOfElements > 0 THEN t.nNumOfElements - 1 ELSE 0]

\* next_zval reading the key through the backward cursor
next_zval_KeyAtEnd(t, it) ==
    IF it.current_num >= it.end_num THEN [it |-> it, item |-> None]
    ELSE LET key_type == zend_hash_get_current_key_type_ex(t, it.pos)
             key0 == zend_hash_get_current_key_zval_ex(t, it.end_pos)
             val_ptr == zend_hash_get_current_data_ex(t, it.pos)
             key == IF key0.tag # "Long" /\ key0.tag # "String"
                    THEN ZLong(it.current_num) ELSE key0
         IN IF key_type = -1 \/ key_type = 3 THEN [it |-> it, item |-> None]
            ELSE IF val_ptr = None THEN [it |-> it, item |-> None]
            ELSE [it |-> [it EXCEPT !.pos = zend_hash_move_forward_ex(t, it.pos),
                                    !.current_num = @ + 1],
                  item |-> Some([key |-> key, val |-> val_ptr[1]])]

\* Iter::next_zval: the iterator after the call and Option<(key zval, value)>
next_zval(t, it) ==
    IF it.current_num >= it.end_num THEN [it |-> it, item |-> None]
    ELSE LET key_type == zend_hash_get_current_key_type_ex(t, it.pos)
             key0 == zend_hash_get_current_key_zval_ex(t, it.pos)
             val_ptr == zend_hash_get_current_data_ex(t, it.pos)
             key == IF key0.tag # "Long" /\ key0.tag # "String"
                    THEN ZLong(it.current_num) ELSE key0
         IN IF key_type = -1 \/ key_type = 3 THEN [it |-> it, item |-> None]
            ELSE IF val_ptr = None THEN [it |-> it, item |-> None]
            ELSE [it |-> [it EXCEPT !.pos = zend_hash_move_forward_ex(t, it.pos),
                                    !.current_num = @ + 1],
                  item |-> Some([key |-> key, val |-> val_ptr[1]])]

\* Iterator::next for Iter
Iter_next(t, it) ==
    LET r == next_zval(t, it)
    IN IF r.item = None THEN [it |-> r.it, item |-> None]
       ELSE [it |-> r.it,
             item |-> Some([key |-> ArrayKey_from_zval(r.item[1].key)[1],
                            val |-> r.item[1].val])]

\* DoubleEndedIterator::next_back for Iter.  The key type is read at pos, the
\* key and the data at end_pos; a null data pointer is dereferenced unchecked.
next_back(t, it) ==
    IF it.end_num <= it.current_num THEN [it |-> it, item |-> None]
    ELSE LET key_type == zend_hash_get_current_key_type_ex(t, it.pos)
             key0 == zend_hash_get_current_key_zval_ex(t, it.end_pos)
             val_ptr == zend_hash_get_current_data_ex(t, it.end_pos)
             value == IF val_ptr = None THEN ZNullRef ELSE val_ptr[1]
             key == IF ArrayKey_from_zval(key0) # None
                    THEN ArrayKey_from_zval(key0)[1] ELSE KLong(it.end_num)
         IN IF key_type = -1 THEN [it |-> it, item |-> None]
            ELSE [it |-> [it EXCEPT
                            !.end_pos = zend_hash_move_backwards_ex(t, it.end_pos),
                            !.end_num = @ - 1],
                  item |-> Some([key |-> key, val |-> value])]

\* next() on a fresh iterator until it returns None
RECURSIVE DrainNext(_, _)
DrainNext(t, it) ==
    LET r == Iter_next(t, it)
    IN IF r.item = None THEN <<>> ELSE <<r.item[1]>> \o DrainNext(t, r.it)

\* (&ht).into_iter().collect()
IterAll(t) == DrainNext(t, Iter_new(t))

\* next_back() on a fresh iterator until it returns None
RECURSIVE DrainBack(_, _)
DrainBack(t, it) ==
    LET r == next_back(t, it)
    IN IF r.item = None THEN <<>> ELSE <<r.item[1]>> \o DrainBack(t, r.it)

\* ht.iter().rev().collect()
IterRevAll(t) == DrainBack(t, Iter_new(t))

\* ExactSizeIterator::len for Iter (and, through self.0, for Values)
Iter_len(t, it) == len(t)

\* Iterator::count for Iter (and, through self.0, for Values)
Iter_count(t, it) == len(t)

\* ZendHashTable::has_numerical_keys
has_numerical_keys(t) ==
    LET items == IterAll(t)
    IN ~ \E i \in 1..Len(items) : ~ is_long(items[i].key)

\* has_sequential_keys comparing the set of keys, not the keys in order
has_sequential_keys_AnyOrder(t) ==
    LET items == IterAll(t)
    IN {items[i].key : i \in 1..Len(items)} = {KLong(i - 1) : i \in 1..Len(items)}

\* ZendHashTable::has_sequential_keys
has_sequential_keys(t) ==
    LET items == IterAll(t)
    IN ~ \E i \in 1..Len(items) : KLong(i - 1) # items[i].key

(***************************************************************************)
(* Conversions between Vec<T> and the array.                               *)
(***************************************************************************)
RECURSIVE CollectLong(_)
CollectLong(items) ==
    IF items = <<>> THEN [ret |-> "Ok", vec |-> <<>>, tag |-> "none"]
    ELSE IF FromZvalLong(Head(items).val) = None
         THEN [ret |-> "ErrZvalConversion", vec |-> <<>>, tag |-> Head(items).val.tag]
         ELSE LET r == CollectLong(Tail(items))
              IN IF r.ret # "Ok" THEN r
                 ELSE [ret |-> "Ok",
                       vec |-> <<FromZvalLong(Head(items).val)[1]>> \o r.vec,
                       tag |-> "none"]

\* the conversion going on after a value that does not convert
Vec_try_from_ht_LastError(t) ==
    LET r == CollectLong(IterRevAll(t))
    IN IF r.ret = "Ok" THEN CollectLong(IterAll(t)) ELSE r

\* the conversion collecting from the back of the array
Vec_try_from_ht_Rev(t) == CollectLong(IterRevAll(t))

\* TryFrom<&ZendHashTable> for Vec<T>, with T = i64
Vec_try_from_ht(t) == CollectLong(IterAll(t))

\* ArrayKey::to_string (Display for ArrayKey)
ArrayKey_to_string(key) == IF key.t = "Long" THEN DecStr(key.n) ELSE key.s

\* the loop of TryFrom<&ZendHashTable> for HashMap<String, V>, V = i64, over
\* the pairs still to come; hm is the map so far, a set of <<key, value>>
RECURSIVE CollectMap(_, _)
CollectMap(items, hm) ==
    IF items = <<>> THEN [ret |-> "Ok", vec |-> hm, tag |-> "none"]
    ELSE IF FromZvalLong(Head(items).val) = None
         THEN [ret |-> "ErrZvalConversion", vec |-> {}, tag |-> Head(items).val.tag]
         ELSE CollectMap(Tail(items),
                         {e \in hm : e[1] # ArrayKey_to_string(Head(items).key)}
                         \cup {<<ArrayKey_to_string(Head(items).key),
                                 FromZvalLong(Head(items).val)[1]>>})

\* TryFrom<&ZendHashTable> for HashMap<String, V>
HashMap_try_from_ht(t) == CollectMap(IterAll(t), {})

(***************************************************************************)
(* The insertion-ordered map the host table implements: the live entries   *)
(* in the order their keys were first inserted.                            *)
(***************************************************************************)
\* the host key an ArrayKey addresses
HostKey(key) ==
    IF key.t = "Long" THEN LongSlot(AsUlong(key.n), ZUndef)
    ELSE IF ParseI64(key.s) # None
         THEN LongSlot(AsUlong(ParseI64(key.s)[1]), ZUndef)
         ELSE StrSlot(key.s, ZUndef)

SameKey(a, b) == a.t = b.t /\ a.h = b.h /\ a.key = b.key

HasKey(o, k) == \E i \in 1..Len(o) : SameKey(o[i], k)

MapUpdate(o, k, z) ==
    IF HasKey(o, k)
    THEN [i \in 1..Len(o) |-> IF SameKey(o[i], k) THEN [o[i] EXCEPT !.val = z]
                              ELSE o[i]]
    ELSE Append(o, [k EXCEPT !.val = z])

MapDelete(o, k) == SelectSeq(o, LAMBDA e : ~ SameKey(e, k))

\* the next free integer key: one past the largest key ever appended
MapAppend(o, nextFree, z) ==
    LET h == IF nextFree = ZEND_LONG_MIN THEN 0 ELSE AsUlong(nextFree)
    IN IF HasKey(o, LongSlot(h, ZUndef)) THEN o ELSE Append(o, LongSlot(h, z))

\* the key an entry is reported under
KeyOfEntry(e) == IF e.t = "S" THEN KString(e.key) ELSE KLong(AsLong(e.h))

(***************************************************************************)
(* Inputs.  The actions draw their keys from ActKeys; the properties apply *)
(* the operations to every reachable array with every key of InKeys.       *)
(***************************************************************************)
ActInts == {-1, 0, 2, ZEND_LONG_MAX}

IntKeys == ActInts \cup {1, ZEND_LONG_MIN}

\* "a", "1", "01" and a key with a nul byte
ActStrs == {<<"a">>, DecStr(1), <<"0", "1">>, <<"a", "NUL">>}

\* also "+1", "-1", "-0", one past the largest integer, "" and " 1"
StrKeys == ActStrs \cup {<<"+", "1">>, DecStr(-1), <<"-", "0">>,
                         DecStr(ZEND_LONG_MAX + 1), <<>>, <<" ", "1">>}

ActKeys == {KLong(i) : i \in ActInts} \cup {KStr(s) : s \in ActStrs}
               \cup {KString(<<"a">>)}

InKeys == {KLong(i) : i \in IntKeys} \cup {KStr(s) : s \in StrKeys}
              \cup {KString(s) : s \in StrKeys}

Natives == {NInt(1), NStr(<<"x">>), NBad}

VecElems == {NInt(1), NInt(2), NBad}

\* the Zvals an iterator hands to FromIterator<Zval>
ZvalElems == {NInt(1), NStr(<<"x">>), NNull}

\* longest Vec converted
MaxVec == 4
\* most entries of a converted HashMap
MaxMap == 2
\* the keys of the converted HashMaps
MapKeys == {<<"a">>, <<"b">>, DecStr(1), <<"0", "1">>, <<"+", "1">>, <<"a", "NUL">>}

RECURSIVE SeqsUpTo(_, _)
SeqsUpTo(S, n) ==
    IF n = 0 THEN {<<>>}
    ELSE SeqsUpTo(S, n - 1)
         \cup {Append(q, x) : q \in {p \in SeqsUpTo(S, n - 1) : Len(p) = n - 1},
                              x \in S}

NoDone == [closure |-> "none", cval |-> 0, bailed |-> FALSE, result |-> "none",
           rval |-> 0, runs |-> 0, after |-> 0, first |-> FALSE, depth |-> 0,
           eg_call |-> 0, eg_ret |-> 0, caller |-> "none", sub |-> "none",
           locals |-> 0, dropped |-> 0]

NoOutcome == [kind |-> "none", val |-> 0]

NoTC == /\ tc_stack = <<>>
        /\ eg_bailout = 0
        /\ tc_heap = <<>>
        /\ tc_unwind = 0
        /\ tc_done = NoDone
        /\ tc_outer = NoOutcome

NoLast == [op |-> "none", src |-> 0, dst |-> 0, before |-> <<>>, ret |-> <<>>]

NoObj == objs = <<>> /\ olast = NoLast

NoVec == /\ vxs = <<>>
         /\ vks = <<>>
         /\ vmode = "none"
         /\ vpc = "none"
         /\ vi = 0
         /\ vout = [ret |-> "none", vec |-> <<>>, tag |-> "none"]

(***************************************************************************)
(* The state machine of one array and its owner.                           *)
(***************************************************************************)
Init ==
    /\ ht = new
    /\ order = <<>>
    /\ NoVec
    /\ NoTC
    /\ NoObj

Insert ==
    \E k \in ActKeys, v \in Natives :
        LET r == insert(ht, k, v)
        IN /\ nNumUsed(r.ht) <= MaxUsed
           /\ ht' = r.ht
           /\ order' = IF r.ret = "Ok"
                       THEN MapUpdate(order, HostKey(k), IntoZval(v)[1])
                       ELSE order
           /\ UNCHANGED <<vecVars, tcVars, objVars>>

InsertAtIndex ==
    \E i \in ActInts, v \in Natives :
        LET r == insert_at_index(ht, i, v)
        IN /\ nNumUsed(r.ht) <= MaxUsed
           /\ ht' = r.ht
           /\ order' = IF r.ret = "Ok"
                       THEN MapUpdate(order, HostKey(KLong(i)), IntoZval(v)[1])
                       ELSE order
           /\ UNCHANGED <<vecVars, tcVars, objVars>>

Push ==
    \E v \in Natives :
        LET r == push(ht, v)
        IN /\ nNumUsed(r.ht) <= MaxUsed
           /\ ht' = r.ht
           /\ order' = IF r.ret = "Ok"
                       THEN MapAppend(order, ht.nNextFreeElement, IntoZval(v)[1])
                       ELSE order
           /\ UNCHANGED <<vecVars, tcVars, objVars>>

Remove ==
    \E k \in ActKeys :
        LET r == remove(ht, k)
        IN /\ ht' = r.ht
           /\ order' = IF r.ret # None THEN MapDelete(order, HostKey(k)) ELSE order
           /\ UNCHANGED <<vecVars, tcVars, objVars>>

RemoveIndex ==
    \E i \in ActInts \cup {1} :
        LET r == remove_index(ht, i)
        IN /\ ht' = r.ht
           /\ order' = IF r.ret # None THEN MapDelete(order, HostKey(KLong(i)))
                       ELSE order
           /\ UNCHANGED <<vecVars, tcVars, objVars>>

Clear ==
    /\ ht' = clear(ht)
    /\ order' = <<>>
    /\ UNCHANGED <<vecVars, tcVars, objVars>>

Next ==
    \/ Insert
    \/ InsertAtIndex
    \/ Push
    \/ Remove
    \/ RemoveIndex
    \/ Clear

Spec == Init /\ [][Next]_vars

\* the same array under the same operations; the properties of the key
\* predicates are stated of it
SpecKeys == Init /\ [][Next]_vars

(***************************************************************************)
(* Arrays received from the host.  The host coerces only the canonical     *)
(* decimal form of an integer and its string keys may hold nul bytes, so   *)
(* a script can store "01" and "a\0" as string keys.                       *)
(***************************************************************************)
\* string keys the host keeps as strings: "01" and a key with a nul byte
HostStrs == {<<"0", "1">>, <<"a", "NUL">>}

\* the host writes $a[s] = 1 for a key it does not coerce
HostStrUpdate ==
    \E s \in HostStrs :
        LET r == zend_hash_str_update(ht, s, ZLong(1))
        IN /\ nNumUsed(r.ht) <= MaxUsed
           /\ ht' = r.ht
           /\ order' = MapUpdate(order, StrSlot(s, ZUndef), ZLong(1))
           /\ UNCHANGED <<vecVars, tcVars, objVars>>

NextHost ==
    \/ Next
    \/ HostStrUpdate

SpecHost == Init /\ [][NextHost]_vars

\* the host table holds exactly the entries of the insertion-ordered map
LiveEntries(t) == SelectSeq(t.arData, LAMBDA b : b.t # "U")

HostIsOrderedMap ==
    /\ LiveEntries(ht) = order
    /\ ht.nNumOfElements = Len(order)

(***************************************************************************)
(* Vec<T> -> array -> Vec<T>.  The loop of TryFrom<Vec<T>> (and of         *)
(* FromIterator<Zval>) runs one push per step; vi counts the pushes done.  *)
(***************************************************************************)
VecIsZvals(xs) == \A i \in 1..Len(xs) : xs[i] # NBad

InitVec ==
    /\ vmode \in {"vec", "iter", "map"}
    /\ vxs \in CASE vmode = "map" -> SeqsUpTo(VecElems, MaxMap)
                 [] vmode = "iter" -> SeqsUpTo(ZvalElems, MaxVec)
                 [] OTHER -> SeqsUpTo(VecElems, MaxVec)
    /\ vks \in IF vmode = "map"
               THEN {ks \in SeqsUpTo(MapKeys, MaxMap) :
                        /\ Len(ks) = Len(vxs)
                        /\ \A i, j \in 1..Len(ks) : ks[i] = ks[j] => i = j}
               ELSE {<<>>}
    /\ vmode = "iter" => VecIsZvals(vxs)
    /\ ht = IF vmode = "vec" THEN zend_new_array(Len(vxs)) ELSE new
    /\ order = <<>>
    /\ vpc = "loop"
    /\ vi = 0
    /\ vout = [ret |-> "none", vec |-> <<>>, tag |-> "none"]
    /\ NoTC
    /\ NoObj

\* TryFrom<Vec<T>>: `ht.push(val)?`
VecPush ==
    /\ vpc = "loop"
    /\ vmode = "vec"
    /\ vi < Len(vxs)
    /\ LET r == push(ht, vxs[vi + 1])
       IN IF r.ret = "Ok"
          THEN ht' = r.ht /\ vi' = vi + 1 /\ vpc' = vpc
          ELSE ht' = r.ht /\ vi' = vi /\ vpc' = "err"
    /\ UNCHANGED <<order, vxs, vks, vmode, vout, tcVars, objVars>>

\* TryFrom<HashMap<K, V>>: `ht.insert(k.as_ref(), v)?`; the HashMap hands out
\* its entries in an order of its own, here the order of vks
MapInsert ==
    /\ vpc = "loop"
    /\ vmode = "map"
    /\ vi < Len(vxs)
    /\ LET r == insert(ht, KStr(vks[vi + 1]), vxs[vi + 1])
       IN IF r.ret = "Ok"
          THEN ht' = r.ht /\ vi' = vi + 1 /\ vpc' = vpc
          ELSE ht' = r.ht /\ vi' = vi /\ vpc' = "err"
    /\ UNCHANGED <<order, vxs, vks, vmode, vout, tcVars, objVars>>

\* FromIterator<Zval>: `let _ = ht.push(item)`
IterPush ==
    /\ vpc = "loop"
    /\ vmode = "iter"
    /\ vi < Len(vxs)
    /\ ht' = push(ht, NZval(IntoZval(vxs[vi + 1])[1])).ht
    /\ vi' = vi + 1
    /\ UNCHANGED <<order, vxs, vks, vmode, vpc, vout, tcVars, objVars>>

\* the conversion returns the array
VecBuilt ==
    /\ vpc = "loop"
    /\ vi = Len(vxs)
    /\ vpc' = "built"
    /\ UNCHANGED <<ht, order, vxs, vks, vmode, vi, vout, tcVars, objVars>>

\* let back: Vec<i64> = (&ht).try_into()
VecBack ==
    /\ vpc = "built"
    /\ vmode # "map"
    /\ vout' = Vec_try_from_ht(ht)
    /\ vpc' = "back"
    /\ UNCHANGED <<ht, order, vxs, vks, vmode, vi, tcVars, objVars>>

\* let back: HashMap<String, i64> = (&ht).try_into()
MapBack ==
    /\ vpc = "built"
    /\ vmode = "map"
    /\ vout' = HashMap_try_from_ht(ht)
    /\ vpc' = "back"
    /\ UNCHANGED <<ht, order, vxs, vks, vmode, vi, tcVars, objVars>>

NextVec ==
    \/ VecPush
    \/ IterPush
    \/ VecBuilt
    \/ VecBack
    \/ MapInsert
    \/ MapBack

SpecVec == InitVec /\ [][NextVec]_vars

(***************************************************************************)
(* src/zend/try_catch.rs: the bailout bridge.  tc_stack holds the active   *)
(* do_try_catch calls, innermost last; only the innermost closure runs.    *)
(* eg_bailout is the host's EG(bailout): 0 for null, else the index in     *)
(* tc_stack of the call whose jump buffer is registered.  tc_heap holds    *)
(* the Box<thread::Result<R>> allocations, addressed from 1.               *)
(***************************************************************************)
\* deepest nesting of try_catch calls
MaxDepth == 2
\* most statements a closure executes apart from its calls
MaxStmts == 1

RetVals == {1, 2}
Payloads == {11, 12}

NewFrame(first, eg) ==
    [first |-> first, pc |-> "enter", orig |-> 0, panic_ptr |-> 0, boxed |-> 0,
     has_bailout |-> FALSE, stmts |-> 0, runs |-> 0, bailed |-> FALSE,
     after |-> 0, cend |-> "none", cval |-> 0, sub |-> "none", eg_call |-> eg,
     locals |-> 0, dropped |-> 0]

\* try_catch(func): do_try_catch(func, false)
try_catch_AsFirst(eg) == NewFrame(TRUE, eg)

try_catch(eg) == NewFrame(FALSE, eg)

\* try_catch_first(func): do_try_catch(func, true)
try_catch_first(eg) == NewFrame(TRUE, eg)

Depth == Len(tc_stack)
Top == tc_stack[Depth]
SetTop(f) == [tc_stack EXCEPT ![Depth] = f]

FreeBox == [live |-> FALSE, kind |-> "none", val |-> 0]

\* address of a new box
AllocAddr(heap) ==
    IF \E a \in 1..Len(heap) : ~ heap[a].live
    THEN CHOOSE a \in 1..Len(heap) :
             ~ heap[a].live /\ \A b \in 1..(a - 1) : heap[b].live
    ELSE Len(heap) + 1

\* Box::into_raw(Box::new(panic))
BoxNew(heap, kind, val) ==
    LET a == AllocAddr(heap)
        b == [live |-> TRUE, kind |-> kind, val |-> val]
    IN IF a > Len(heap) THEN Append(heap, b) ELSE [heap EXCEPT ![a] = b]

\* *Box::from_raw(ptr): the box is freed
BoxFree(heap, a) == [heap EXCEPT ![a] = FreeBox]

\* the host enters a frame (zend_try, or zend_first_try): the previous
\* EG(bailout) is saved, after zend_first_try reset it to null
HostEnterFrame(first, eg, me) ==
    [orig |-> IF first THEN 0 ELSE eg, eg |-> me]

\* the host leaves a frame (zend_end_try, or the head of zend_catch)
HostLeaveFrame(orig) == orig

\* ext_php_rs_zend_bailout: longjmp to the frame EG(bailout) names; every
\* native frame above it is abandoned without running destructors.  With no
\* frame registered the host ends the process.
ext_php_rs_zend_bailout(stack, eg) ==
    IF eg = 0 \/ eg > Len(stack)
    THEN [stack |-> stack, eg |-> eg, exited |-> TRUE]
    ELSE [stack |-> [SubSeq(stack, 1, eg) EXCEPT
                        ![eg].has_bailout = TRUE,
                        ![eg].pc = "returned"],
          eg |-> HostLeaveFrame(stack[eg].orig),
          exited |-> FALSE]

\* a bailout that unwinds like a panic, running the destructors on its way
bailout_Unwinds(stack, eg) ==
    ext_php_rs_zend_bailout(
        [stack EXCEPT ![Len(stack)].bailed = TRUE, ![Len(stack)].cend = "bailout",
                      ![Len(stack)].dropped = stack[Len(stack)].locals],
        eg)

\* a bailout that returns to the closure instead of jumping
bailout_Returns(stack, eg) ==
    [stack |-> [stack EXCEPT ![Len(stack)].bailed = TRUE],
     eg |-> eg, exited |-> FALSE]

\* zend::bailout(), called by the innermost closure
bailout(stack, eg) ==
    ext_php_rs_zend_bailout(
        [stack EXCEPT ![Len(stack)].bailed = TRUE, ![Len(stack)].cend = "bailout"],
        eg)

\* do_try_catch reading the host's flag only when the slot is null
do_try_catch_SlotFirst(panic_ptr, has_bailout, heap) ==
    IF panic_ptr = 0
    THEN [kind |-> "Err", val |-> 0, heap |-> heap]
    ELSE IF heap[panic_ptr].kind = "Ok"
         THEN [kind |-> "Ok", val |-> heap[panic_ptr].val,
               heap |-> BoxFree(heap, panic_ptr)]
         ELSE [kind |-> "Panic", val |-> heap[panic_ptr].val,
               heap |-> BoxFree(heap, panic_ptr)]

\* do_try_catch with the host's flag read negated
do_try_catch_NegatedFlag(panic_ptr, has_bailout, heap) ==
    IF panic_ptr = 0 \/ ~ has_bailout
    THEN [kind |-> "Err", val |-> 0, heap |-> heap]
    ELSE IF heap[panic_ptr].kind = "Ok"
         THEN [kind |-> "Ok", val |-> heap[panic_ptr].val,
               heap |-> BoxFree(heap, panic_ptr)]
         ELSE [kind |-> "Panic", val |-> heap[panic_ptr].val,
               heap |-> BoxFree(heap, panic_ptr)]

\* do_try_catch after the host call returned: Err(CatchError), Ok(r), or the
\* panic resumed with its payload; heap is the heap it leaves
do_try_catch(panic_ptr, has_bailout, heap) ==
    IF panic_ptr = 0 \/ has_bailout
    THEN [kind |-> "Err", val |-> 0, heap |-> heap]
    ELSE IF heap[panic_ptr].kind = "Ok"
         THEN [kind |-> "Ok", val |-> heap[panic_ptr].val,
               heap |-> BoxFree(heap, panic_ptr)]
         ELSE [kind |-> "Panic", val |-> heap[panic_ptr].val,
               heap |-> BoxFree(heap, panic_ptr)]

\* a wrapper that boxes whatever the closure left as if it had returned it
panic_wrapper_NoCatch(heap, cend, cval) == BoxNew(heap, "Ok", cval)

\* panic_wrapper: catch_unwind around the closure, boxed
panic_wrapper(heap, cend, cval) ==
    BoxNew(heap, IF cend = "ret" THEN "Ok" ELSE "Err", cval)

InitTC ==
    /\ NoTC
    /\ ht = new
    /\ order = <<>>
    /\ NoVec
    /\ NoObj

Running == Depth > 0 /\ Top.pc = "closure" /\ tc_unwind = 0 /\ tc_outer.kind # "exit"

TCFrame == UNCHANGED <<ht, order, vecVars, objVars>>

\* try_catch(f) / try_catch_first(f) is called: by the outermost caller, or
\* (try_catch) by the running closure
CallTryCatch ==
    /\ tc_unwind = 0
    /\ tc_outer.kind # "exit"
    /\ Depth < MaxDepth
    /\ \E first \in BOOLEAN :
          \/ /\ Depth = 0
             /\ tc_stack' = <<IF first THEN try_catch_first(eg_bailout)
                               ELSE try_catch(eg_bailout)>>
          \/ /\ Running
             /\ ~ first
             /\ tc_stack' = Append(SetTop([Top EXCEPT !.pc = "calling"]),
                                   try_catch(eg_bailout))
    /\ tc_outer' = NoOutcome
    /\ UNCHANGED <<eg_bailout, tc_heap, tc_unwind, tc_done>>
    /\ TCFrame

\* do_try_catch calls the host, which registers the frame and calls
\* panic_wrapper, which invokes the closure under catch_unwind
HostTry ==
    /\ Depth > 0
    /\ Top.pc = "enter"
    /\ LET e == HostEnterFrame(Top.first, eg_bailout, Depth)
       IN /\ eg_bailout' = e.eg
          /\ tc_stack' = SetTop([Top EXCEPT !.orig = e.orig, !.pc = "closure",
                                            !.runs = @ + 1])
    /\ UNCHANGED <<tc_heap, tc_unwind, tc_done, tc_outer>>
    /\ TCFrame

\* the closure executes a statement, which creates a value owned by the
\* closure's scope
ClosureStmt ==
    /\ Running
    /\ Top.stmts < MaxStmts
    /\ tc_stack' = SetTop([Top EXCEPT !.stmts = @ + 1,
                                      !.locals = @ + 1,
                                      !.after = IF Top.bailed THEN @ + 1 ELSE @])
    /\ UNCHANGED <<eg_bailout, tc_heap, tc_unwind, tc_done, tc_outer>>
    /\ TCFrame

\* the closure returns r, its scope ends and its values are dropped:
\* catch_unwind yields Ok(r)
ClosureReturn ==
    /\ Running
    /\ \E r \in RetVals :
          tc_stack' = SetTop([Top EXCEPT !.pc = "caught", !.cend = "ret",
                                         !.cval = r, !.dropped = Top.locals])
    /\ UNCHANGED <<eg_bailout, tc_heap, tc_unwind, tc_done, tc_outer>>
    /\ TCFrame

\* the closure panics and unwinding drops its values: catch_unwind yields
\* Err(payload)
ClosurePanic ==
    /\ Running
    /\ \E q \in Payloads :
          tc_stack' = SetTop([Top EXCEPT !.pc = "caught", !.cend = "panic",
                                         !.cval = q, !.dropped = Top.locals])
    /\ UNCHANGED <<eg_bailout, tc_heap, tc_unwind, tc_done, tc_outer>>
    /\ TCFrame

\* the closure calls bailout()
ClosureBailout ==
    /\ Running
    /\ LET r == bailout(tc_stack, eg_bailout)
       IN /\ tc_stack' = r.stack
          /\ eg_bailout' = r.eg
          /\ tc_outer' = IF r.exited THEN [kind |-> "exit", val |-> 0]
                         ELSE tc_outer
    /\ UNCHANGED <<tc_heap, tc_unwind, tc_done>>
    /\ TCFrame

Done(f, res, caller) ==
    [closure |-> f.cend, cval |-> f.cval, bailed |-> f.bailed,
     result |-> res.kind, rval |-> res.val, runs |-> f.runs, after |-> f.after,
     first |-> f.first, depth |-> Depth, eg_call |-> f.eg_call,
     eg_ret |-> eg_bailout, caller |-> caller, sub |-> f.sub,
     locals |-> f.locals, dropped |-> f.dropped]

\* a panic_wrapper without catch_unwind: the panic leaves the wrapper and
\* crosses the host's frame, which stays registered
WrapperReturn_NoCatch ==
    /\ Depth > 0
    /\ Top.pc = "caught"
    /\ tc_unwind = 0
    /\ IF Top.cend = "panic"
       THEN /\ tc_unwind' = Top.cval
            /\ tc_done' = Done(Top, [kind |-> "Panic", val |-> Top.cval],
                               "unwinding")
            /\ tc_stack' = SubSeq(tc_stack, 1, Depth - 1)
            /\ UNCHANGED <<eg_bailout, tc_heap, tc_outer>>
       ELSE /\ tc_heap' = panic_wrapper(tc_heap, Top.cend, Top.cval)
            /\ eg_bailout' = HostLeaveFrame(Top.orig)
            /\ tc_stack' = SetTop([Top EXCEPT !.panic_ptr = AllocAddr(tc_heap),
                                              !.has_bailout = FALSE,
                                              !.pc = "returned"])
            /\ UNCHANGED <<tc_unwind, tc_done, tc_outer>>
    /\ TCFrame

\* panic_wrapper boxes the result and returns the pointer; the host stores it
\* through `out`, leaves the frame and returns false
WrapperReturn ==
    /\ Depth > 0
    /\ Top.pc = "caught"
    /\ tc_unwind = 0
    /\ tc_heap' = panic_wrapper(tc_heap, Top.cend, Top.cval)
    /\ eg_bailout' = HostLeaveFrame(Top.orig)
    /\ tc_stack' = SetTop([Top EXCEPT !.panic_ptr = AllocAddr(tc_heap),
                                      !.has_bailout = FALSE,
                                      !.pc = "returned"])
    /\ UNCHANGED <<tc_unwind, tc_done, tc_outer>>
    /\ TCFrame

\* do_try_catch reads has_bailout and the slot and returns, or resumes the
\* panic; a returned value goes to the caller, which runs on
Finish ==
    /\ Depth > 0
    /\ Top.pc = "returned"
    /\ LET r == do_try_catch(Top.panic_ptr, Top.has_bailout, tc_heap)
           res == [kind |-> r.kind, val |-> r.val]
       IN /\ tc_heap' = r.heap
          /\ tc_unwind' = IF res.kind = "Panic" THEN res.val ELSE 0
          /\ tc_done' = Done(Top, res,
                             IF res.kind = "Panic" THEN "unwinding"
                             ELSE IF Depth = 1 THEN "toplevel" ELSE "closure")
          /\ tc_stack' =
                IF Depth = 1 THEN <<>>
                ELSE IF res.kind = "Panic" THEN SubSeq(tc_stack, 1, Depth - 1)
                ELSE [SubSeq(tc_stack, 1, Depth - 1) EXCEPT
                         ![Depth - 1].pc = "closure",
                         ![Depth - 1].sub = res.kind]
          /\ tc_outer' = IF Depth = 1 /\ res.kind # "Panic" THEN res ELSE tc_outer
    /\ UNCHANGED eg_bailout
    /\ TCFrame

\* the resumed panic unwinds into the caller: the enclosing closure's
\* catch_unwind, or the outermost caller's panic handler
Unwind ==
    /\ tc_unwind # 0
    /\ IF Depth = 0
       THEN /\ tc_outer' = [kind |-> "Panic", val |-> tc_unwind]
            /\ tc_stack' = tc_stack
       ELSE /\ tc_stack' = SetTop([Top EXCEPT !.pc = "caught", !.cend = "panic",
                                              !.cval = tc_unwind,
                                              !.sub = "Panic",
                                              !.dropped = Top.locals])
            /\ tc_outer' = tc_outer
    /\ tc_unwind' = 0
    /\ UNCHANGED <<eg_bailout, tc_heap, tc_done>>
    /\ TCFrame

NextTC ==
    \/ CallTryCatch
    \/ HostTry
    \/ ClosureStmt
    \/ ClosureReturn
    \/ ClosurePanic
    \/ ClosureBailout
    \/ WrapperReturn
    \/ Finish
    \/ Unwind

SpecTC == InitTC /\ [][NextTC]_vars

(***************************************************************************)
(* ZBox owners over host allocations: hashtables (src/types/array.rs) and  *)
(* class-object carriers (src/types/class_object.rs).  objs[i] is the i-th *)
(* allocation the host made.  A carrier ZendClassObject<T> lies at its     *)
(* base address with the zend_object header `std` behind the payload.      *)
(***************************************************************************)
\* most allocations made
MaxObjs == 2

\* the registered Rust types T, and the payload values
Types == {1, 2}
Payloads_T == {1, 2}

\* T::get_metadata().ce(): class 1 for type 1, class 2 for type 2; class 3
\* is a script class that extends class 1
ClassOf(ty) == ty
Classes == {1, 2, 3}

\* ZendObject::instance_of
instance_of(ce, class) == ce = class \/ (ce = 3 /\ class = 1)

\* #[repr(C)] struct ZendClassObject<T> { obj: Option<T>, std }: the offset
\* of std is the size of Option<T> rounded up to the header's alignment
FieldOffsetStd(ty) ==
    LET size == IF ty = 1 THEN 4 ELSE 24
    IN ((size + 7) \div 8) * 8

\* the address at which the host placed allocation i
BaseAddr(i) == 64 * i

\* &obj.std of the carrier at base address p
AddrOfStd(ty, p) == p + FieldOffsetStd(ty)

\* the allocation whose header lies at address h; 0 if there is none
HeaderIndex(heap, h) ==
    IF \E i \in 1..Len(heap) :
           heap[i].kind = "obj" /\ AddrOfStd(heap[i].ty, BaseAddr(i)) = h
    THEN CHOOSE i \in 1..Len(heap) :
             heap[i].kind = "obj" /\ AddrOfStd(heap[i].ty, BaseAddr(i)) = h
    ELSE 0

\* ZendClassObject::std_offset: with a dangling, aligned Self at `base`,
\* (address of std) - (address of base)
std_offset_Zero(ty) == 0

std_offset(ty) ==
    LET base == 8
        std == AddrOfStd(ty, base)
    IN std - base

\* ZendHashTable::with_capacity: _zend_new_array, adopted by ZBox::from_raw
with_capacity(heap) ==
    Append(heap, [kind |-> "ht", ty |-> 0, ce |-> 0, payload |-> None,
                  props |-> 0, handlers |-> 0, hinit |-> <<>>,
                  refcount |-> 1, released |-> 0,
                  pdrops |-> 0, owner |-> "box", how |-> "ht"])

\* T::get_metadata().handlers(): the handler table of T's class metadata;
\* 0 is the host's default table
HandlersOf(ty) == ty

\* the host's zend_object_std_init(&obj.std, ce): class, reference count 1,
\* the default handler table
zend_object_std_init(c, ce) ==
    [c EXCEPT !.ce = ce, !.refcount = 1, !.handlers = 0,
              !.hinit = Append(@, <<"std_init", ce>>)]

\* the host's object_properties_init(&obj.std, ce): the default properties
object_properties_init(c, ce) ==
    [c EXCEPT !.props = 0, !.hinit = Append(@, <<"properties_init", ce>>)]

\* internal_new assigning the handler table before the host initialisation
internal_new_HandlersFirst(heap, ty, val, ce) ==
    LET cls == IF ce = None THEN ClassOf(ty) ELSE ce[1]
        obj0 == [kind |-> "obj", ty |-> ty, ce |-> 0, payload |-> None,
                 props |-> 0, handlers |-> HandlersOf(ty), hinit |-> <<>>,
                 refcount |-> 0, released |-> 0, pdrops |-> 0,
                 owner |-> "box", how |-> IF val = None THEN "uninit" ELSE "new"]
        obj1 == zend_object_std_init(obj0, cls)
        obj2 == object_properties_init(obj1, cls)
    IN Append(heap, [obj2 EXCEPT !.payload = val])

\* ZendClassObject::internal_new: the host allocates for the class used
\* and initialises the header, the payload is written and then T's handler
\* table is set
internal_new(heap, ty, val, ce) ==
    LET cls == IF ce = None THEN ClassOf(ty) ELSE ce[1]
        obj0 == [kind |-> "obj", ty |-> ty, ce |-> 0, payload |-> None,
                 props |-> 0, handlers |-> 0, hinit |-> <<>>,
                 refcount |-> 0, released |-> 0, pdrops |-> 0,
                 owner |-> "box", how |-> IF val = None THEN "uninit" ELSE "new"]
        obj1 == zend_object_std_init(obj0, cls)
        obj2 == object_properties_init(obj1, cls)
        obj3 == [obj2 EXCEPT !.payload = val]
    IN Append(heap, [obj3 EXCEPT !.handlers = HandlersOf(ty)])

\* initialize returning the payload it has just stored
initialize_ReturnsNew(c, val) ==
    [obj |-> [c EXCEPT !.payload = Some(val)], ret |-> Some(val)]

\* initialize that takes the payload out and stores nothing
initialize_Take(c, val) == [obj |-> [c EXCEPT !.payload = None], ret |-> c.payload]

\* ZendClassObject::initialize: the carrier after the call and the old payload
initialize(c, val) == [obj |-> [c EXCEPT !.payload = Some(val)], ret |-> c.payload]

\* internal_from_zend_obj::<T> on the header at address h: Option of the
\* carrier's address
internal_from_zend_obj_NoCheck(heap, ty, h) ==
    IF h - std_offset(ty) = 0 THEN None ELSE Some(h - std_offset(ty))

internal_from_zend_obj(heap, ty, h) ==
    LET ptr == h - std_offset(ty)
    IN IF ptr = 0 THEN None
       ELSE IF instance_of(heap[HeaderIndex(heap, h)].ce, ClassOf(ty))
            THEN Some(ptr)
            ELSE None

\* FromZendObject / FromZendObjectMut for &ZendClassObject<T>
from_zend_object(heap, ty, h) ==
    IF internal_from_zend_obj(heap, ty, h) = None
    THEN [ret |-> "Err", err |-> "InvalidScope", ptr |-> 0]
    ELSE [ret |-> "Ok", err |-> "none", ptr |-> internal_from_zend_obj(heap, ty, h)[1]]

\* the host's zend_array_destroy on the table at address p
zend_array_destroy(heap, p) ==
    [i \in 1..Len(heap) |->
        IF BaseAddr(i) = p /\ heap[i].kind = "ht"
        THEN [heap[i] EXCEPT !.released = @ + 1, !.refcount = 0]
        ELSE heap[i]]

\* the host's object release on the header at address h: the reference
\* count drops, and at zero the free hook drops the payload and frees
ext_php_rs_zend_object_release(heap, h) ==
    [i \in 1..Len(heap) |->
        IF i = HeaderIndex(heap, h)
        THEN [heap[i] EXCEPT
                 !.released = @ + 1,
                 !.refcount = @ - 1,
                 !.pdrops = IF heap[i].refcount = 1 /\ heap[i].payload # None
                            THEN @ + 1 ELSE @]
        ELSE heap[i]]

\* ZBoxable::free for ZendHashTable and for ZendClassObject<T>, on the
\* allocation i
free_Nothing(heap, i) == heap

free(heap, i) ==
    IF heap[i].kind = "ht" THEN zend_array_destroy(heap, BaseAddr(i))
    ELSE ext_php_rs_zend_object_release(heap, AddrOfStd(heap[i].ty, BaseAddr(i)))

\* Clone for ZBox<ZendClassObject<T>>: a new carrier around the cloned
\* payload, then zend_objects_clone_members(new.std, self.std)
clone_NoMembers(heap, i) ==
    [internal_new(heap, heap[i].ty, heap[i].payload, None) EXCEPT
        ![Len(heap) + 1].how = "clone"]

clone(heap, i) ==
    LET new_heap == internal_new(heap, heap[i].ty, heap[i].payload, None)
        dst == HeaderIndex(new_heap, AddrOfStd(heap[i].ty, BaseAddr(Len(heap) + 1)))
        src == HeaderIndex(new_heap, AddrOfStd(heap[i].ty, BaseAddr(i)))
    IN [new_heap EXCEPT ![dst].props = new_heap[src].props,
                        ![dst].how = "clone"]

\* Deref::deref and DerefMut::deref_mut for ZendClassObject<T>:
\* self.obj.as_ref().expect(..) and self.obj.as_mut().expect(..)
deref(c) ==
    IF c.payload = None THEN [kind |-> "Panic", val |-> 0]
    ELSE [kind |-> "Ok", val |-> c.payload[1]]

\* #[derive(Debug)] for ZendClassObject<T>: the fields obj and std are
\* formatted in turn, obj as the Option it is
fmt(c) == [kind |-> "Ok", val |-> <<c.payload, c.ce>>]

\* box.clone(): (***self).clone() goes through deref before anything is
\* allocated
clone_box(heap, i) ==
    IF deref(heap[i]).kind = "Panic" THEN [kind |-> "Panic", heap |-> heap]
    ELSE [kind |-> "Ok", heap |-> clone(heap, i)]

InitObj ==
    /\ NoObj
    /\ ht = new
    /\ order = <<>>
    /\ NoVec
    /\ NoTC

ObjFrame == UNCHANGED <<ht, order, vecVars, tcVars>>

Owned(i) == i \in 1..Len(objs) /\ objs[i].owner = "box"

\* ZendHashTable::new / with_capacity
NewArray ==
    /\ Len(objs) < MaxObjs
    /\ objs' = with_capacity(objs)
    /\ olast' = [NoLast EXCEPT !.op = "new_ht", !.dst = Len(objs) + 1]
    /\ ObjFrame

\* ZendClassObject::new(val)
NewObject ==
    /\ Len(objs) < MaxObjs
    /\ \E ty \in Types, v \in Payloads_T :
          objs' = internal_new(objs, ty, Some(v), None)
    /\ olast' = [NoLast EXCEPT !.op = "new", !.dst = Len(objs) + 1]
    /\ ObjFrame

\* ZendClassObject::new_uninit(ce): the class is T's own or one extending it
NewUninit ==
    /\ Len(objs) < MaxObjs
    /\ \E ty \in Types :
          \E ce \in {None} \cup {Some(c) : c \in {d \in Classes :
                                                   instance_of(d, ClassOf(ty))}} :
              objs' = internal_new(objs, ty, None, ce)
    /\ olast' = [NoLast EXCEPT !.op = "new_uninit", !.dst = Len(objs) + 1]
    /\ ObjFrame

\* ZendClassObject::initialize(val)
Initialize ==
    \E i \in 1..Len(objs), v \in Payloads_T :
        /\ Owned(i)
        /\ objs[i].kind = "obj"
        /\ objs[i].payload \in {None, Some(1)}
        /\ v # 1
        /\ objs' = [objs EXCEPT ![i] = initialize(objs[i], v).obj]
        /\ olast' = [NoLast EXCEPT !.op = "initialize", !.src = i,
                                   !.before = <<objs[i]>>,
                                   !.ret = initialize(objs[i], v).ret]
        /\ ObjFrame

\* the host changes the dynamic properties of an object
HostSetProps ==
    \E i \in 1..Len(objs) :
        /\ Owned(i)
        /\ objs[i].kind = "obj"
        /\ objs[i].props = 0
        /\ objs' = [objs EXCEPT ![i].props = 1]
        /\ olast' = NoLast
        /\ ObjFrame

\* the ZBox goes out of scope: Drop for ZBox calls free
DropBox ==
    \E i \in 1..Len(objs) :
        /\ Owned(i)
        /\ objs' = [free(objs, i) EXCEPT ![i].owner = "dropped"]
        /\ olast' = [NoLast EXCEPT !.op = "drop", !.src = i]
        /\ ObjFrame

\* ZBox::into_raw: ownership is given up and nothing is released
IntoRaw ==
    \E i \in 1..Len(objs) :
        /\ Owned(i)
        /\ objs' = [objs EXCEPT ![i].owner = "raw"]
        /\ olast' = [NoLast EXCEPT !.op = "into_raw", !.src = i]
        /\ ObjFrame

\* box.clone(): a second carrier, or a panic on an uninitialised one
CloneBox ==
    \E i \in 1..Len(objs) :
        /\ Owned(i)
        /\ objs[i].kind = "obj"
        /\ Len(objs) < MaxObjs
        /\ objs' = clone_box(objs, i).heap
        /\ olast' = IF clone_box(objs, i).kind = "Panic"
                    THEN [NoLast EXCEPT !.op = "clone_panic", !.src = i]
                    ELSE [NoLast EXCEPT !.op = "clone", !.src = i,
                                        !.dst = Len(objs) + 1,
                                        !.before = <<objs[i]>>]
        /\ ObjFrame

NextObj ==
    \/ NewArray
    \/ NewObject
    \/ NewUninit
    \/ Initialize
    \/ HostSetProps
    \/ DropBox
    \/ IntoRaw
    \/ CloneBox

SpecObj == InitObj /\ [][NextObj]_vars

(***************************************************************************)
(* The carrier under every operation that takes &self or &mut self: the    *)
(* reads deref, get_mut_zend_obj, from_zend_obj and set_zval beside the    *)
(* operations above.                                                       *)
(***************************************************************************)
\* *carrier / carrier.deref_mut(): the payload, or a panic
Deref ==
    \E i \in 1..Len(objs) :
        /\ Owned(i)
        /\ objs[i].kind = "obj"
        /\ objs' = objs
        /\ olast' = IF deref(objs[i]).kind = "Panic"
                    THEN [NoLast EXCEPT !.op = "deref_panic", !.src = i]
                    ELSE [NoLast EXCEPT !.op = "deref", !.src = i,
                                        !.ret = Some(deref(objs[i]).val)]
        /\ ObjFrame

\* carrier.get_mut_zend_obj(): &mut self.std, the address of the header
GetMutZendObj ==
    \E i \in 1..Len(objs) :
        /\ Owned(i)
        /\ objs[i].kind = "obj"
        /\ objs' = objs
        /\ olast' = [NoLast EXCEPT !.op = "get_mut_zend_obj", !.src = i,
                                   !.ret = Some(AddrOfStd(objs[i].ty, BaseAddr(i)))]
        /\ ObjFrame

\* ZendClassObject::<T>::from_zend_obj(&carrier.std) for a type T
FromZendObj ==
    \E i \in 1..Len(objs), ty \in Types :
        /\ Owned(i)
        /\ objs[i].kind = "obj"
        /\ objs[i].ty = ty
        /\ objs' = objs
        /\ olast' = [NoLast EXCEPT
                        !.op = "from_zend_obj", !.src = i,
                        !.ret = internal_from_zend_obj(
                                    objs, ty, AddrOfStd(objs[i].ty, BaseAddr(i)))]
        /\ ObjFrame

\* IntoZval::set_zval for &mut ZendClassObject<T> and for the ZBox: the zval
\* is pointed at self.std; the ZBox form gives up ownership with into_raw
SetZval ==
    \E i \in 1..Len(objs), boxed \in BOOLEAN :
        /\ Owned(i)
        /\ objs[i].kind = "obj"
        /\ objs' = IF boxed THEN [objs EXCEPT ![i].owner = "raw"] ELSE objs
        /\ olast' = [NoLast EXCEPT !.op = IF boxed THEN "set_zval_box" ELSE "set_zval",
                                   !.src = i,
                                   !.ret = Some(AddrOfStd(objs[i].ty, BaseAddr(i)))]
        /\ ObjFrame

NextCarrier ==
    \/ NewObject
    \/ NewUninit
    \/ Initialize
    \/ DropBox
    \/ CloneBox
    \/ Deref
    \/ GetMutZendObj
    \/ FromZendObj
    \/ SetZval

SpecCarrier == InitObj /\ [][NextCarrier]_vars

(***************************************************************************)
(* Properties of the array.                                                *)
(***************************************************************************)
StrInKeys == {k \in InKeys : k.t # "Long"}

\* C1: on every reachable array, for every key k (integer, owned or borrowed
\* string) and every value v, if insert(k, v) returns Ok then get(k) on the
\* result returns Some of the Zval form of v.
InsertThenGet ==
    \A k \in InKeys, v \in Natives :
        LET r == insert(ht, k, v)
        IN r.ret = "Ok" => get(r.ht, k) = IntoZval(v)

\* a reachable array in which an earlier insert stored a string key and an
\* integer key, both found by get
InsertThenGetWitness ==
    /\ get(ht, KStr(<<"a">>)) = Some(ZStr(<<"x">>))
    /\ get(ht, KLong(-1)) = Some(ZLong(1))
    /\ len(ht) = 2

\* C2: for every integer n and its decimal string s, after insert(s, v)
\* returns Ok, get_index(n) is Some of the Zval form of v and get(s) is the
\* same entry as get_index(n).
NumericStringIsIndex ==
    \A n \in IntKeys, v \in Natives :
        \A k \in {KStr(DecStr(n)), KString(DecStr(n))} :
            LET r == insert(ht, k, v)
            IN r.ret = "Ok" =>
                   /\ get_index(r.ht, n) = IntoZval(v)
                   /\ get(r.ht, k) = get_index(r.ht, n)
                   /\ len(r.ht) = IF get_index(ht, n) = None THEN len(ht) + 1
                                  ELSE len(ht)

\* a reachable array whose only entry sits at index 1 with a string value:
\* the actions store strings at index 1 only through insert("1", _) or
\* insert("01", _)
NumericStringIsIndexWitness ==
    /\ len(ht) = 1
    /\ get_index(ht, 1) = Some(ZStr(<<"x">>))
    /\ get(ht, KStr(DecStr(1))) = get_index(ht, 1)

\* the strings the host coerces: the canonical decimal form of an integer
Canonical(s) == \E n \in ZEND_LONG_MIN..ZEND_LONG_MAX : s = DecStr(n)

CanonicalInt(s) == CHOOSE n \in ZEND_LONG_MIN..ZEND_LONG_MAX : s = DecStr(n)

\* C3: insert, get, get_mut and remove treat a string key as the integer key
\* n exactly when the string is the canonical decimal form of n; any other
\* string is a string key and never addresses an integer-keyed entry.
CoercionIsCanonical ==
    \A k \in StrInKeys :
        IF Canonical(k.s)
        THEN /\ get(ht, k) = get_index(ht, CanonicalInt(k.s))
             /\ get_mut(ht, k) = get_index_mut(ht, CanonicalInt(k.s))
             /\ remove(ht, k) = remove_index(ht, CanonicalInt(k.s))
             /\ \A v \in Natives :
                    insert(ht, k, v) = insert_at_index(ht, CanonicalInt(k.s), v)
        ELSE /\ has_numerical_keys(ht) => get(ht, k) = None /\ get_mut(ht, k) = None
             /\ \A i \in IntKeys :
                    /\ get_index(remove(ht, k).ht, i) = get_index(ht, i)
                    /\ \A v \in Natives :
                           get_index(insert(ht, k, v).ht, i) = get_index(ht, i)

\* the (key, value) pairs of the insertion-ordered map, as iteration reports
OrderItems == [i \in 1..Len(order) |->
                  [key |-> KeyOfEntry(order[i]), val |-> order[i].val]]

\* C7: next() on a fresh iterator until None yields exactly len() pairs, every
\* live entry once with its own key and value, in insertion order.
ForwardIterationIsInsertionOrder ==
    /\ IterAll(ht) = OrderItems
    /\ Len(IterAll(ht)) = len(ht)

\* an array with a hole before its live entries and a string key
ForwardIterationWitness ==
    /\ len(ht) = 2
    /\ nNumUsed(ht) = 3
    /\ ht.arData[1].t = "U"
    /\ ht.arData[3].t = "S"
    /\ Len(IterAll(ht)) = 2

Reverse(q) == [i \in 1..Len(q) |-> q[Len(q) + 1 - i]]

\* C8: next_back() until None yields the pairs of next() until None, reversed.
BackwardIsReverseOfForward == IterRevAll(ht) = Reverse(IterAll(ht))

\* C9: an array built from an empty one by pushes only has sequential and
\* numerical keys after each push, and its keys are 0..n-1 in insertion order.
PushOnlyIsSequential ==
    (vmode \in {"vec", "iter"} /\ vpc \in {"loop", "built", "back"}) =>
        /\ has_sequential_keys(ht)
        /\ has_numerical_keys(ht)
        /\ len(ht) = vi
        /\ IterAll(ht) = [i \in 1..vi |->
                             [key |-> KLong(i - 1), val |-> IntoZval(vxs[i])[1]]]

PushOnlyWitness ==
    /\ vmode = "iter"
    /\ vpc = "built"
    /\ vi = 3
    /\ has_sequential_keys(ht)

\* C10: a Vec converted to an array and back is the Vec it started from.
VecRoundTrip ==
    (vpc = "back" /\ vmode = "vec") => (vout.ret = "Ok" /\ vout.vec = vxs)

VecRoundTripWitness ==
    /\ vpc = "back"
    /\ vmode = "vec"
    /\ vxs = <<NInt(1), NInt(2), NInt(2)>>
    /\ vout.vec = vxs

\* C18: insert returns Err exactly when the value cannot be converted or the
\* string key holds a nul byte; insert_at_index and push exactly when the
\* value cannot be converted; and an Err leaves the array as it was.
ErrLeavesArrayUnchanged ==
    /\ \A k \in InKeys, v \in Natives :
           LET r == insert(ht, k, v)
           IN /\ (r.ret # "Ok") <=>
                     (IntoZval(v) = None \/ (k.t # "Long" /\ HasNul(k.s)))
              /\ r.ret # "Ok" => r.ht = ht
    /\ \A v \in Natives :
           /\ \A i \in IntKeys :
                  LET r == insert_at_index(ht, i, v)
                  IN /\ (r.ret # "Ok") <=> (IntoZval(v) = None)
                     /\ r.ret # "Ok" => r.ht = ht
           /\ LET r == push(ht, v)
              IN /\ (r.ret # "Ok") <=> (IntoZval(v) = None)
                 /\ r.ret # "Ok" => r.ht = ht

\* an array of two entries on which the three operations fail
ErrLeavesArrayUnchangedWitness ==
    /\ len(ht) = 2
    /\ insert(ht, KStr(<<"a", "NUL">>), NInt(1)).ret = "ErrKey"
    /\ insert(ht, KLong(0), NBad).ret = "ErrValue"
    /\ insert_at_index(ht, 0, NBad).ret = "ErrValue"
    /\ push(ht, NBad).ret = "ErrValue"

\* the pairs of `items` without the pair of key k
WithoutKey(items, k) == SelectSeq(items, LAMBDA e : e.key # k)

\* C19: remove and remove_index on a present key return Some(()), take one
\* from len(), make a following get return None and leave every other entry
\* and the order alone; on an absent key they return None and change nothing.
RemoveTakesOneEntry ==
    LET items == IterAll(ht) IN
    /\ \A k \in InKeys :
           LET r == remove(ht, k)
               ik == KeyOfEntry(HostKey(k))
           IN IF get(ht, k) # None
              THEN /\ r.ret = Some("unit")
                   /\ len(r.ht) = len(ht) - 1
                   /\ get(r.ht, k) = None
                   /\ IterAll(r.ht) = WithoutKey(items, ik)
              ELSE r.ret = None /\ r.ht = ht
    /\ \A i \in IntKeys :
           LET r == remove_index(ht, i)
           IN IF get_index(ht, i) # None
              THEN /\ r.ret = Some("unit")
                   /\ len(r.ht) = len(ht) - 1
                   /\ get_index(r.ht, i) = None
                   /\ IterAll(r.ht) = WithoutKey(items, KLong(i))
              ELSE r.ret = None /\ r.ht = ht

\* an array of three entries with the string key "a" in the middle
RemoveTakesOneEntryWitness ==
    /\ len(ht) = 3
    /\ IterAll(ht)[2].key = KString(<<"a">>)
    /\ remove(ht, KStr(<<"a">>)).ret = Some("unit")
    /\ remove_index(ht, 1).ret = None

\* C20: insert and insert_at_index on a present key replace the value and
\* keep len(), the other entries and the key's place in the order; on an
\* absent key they add one entry at the end of the order.
InsertReplacesOrAppends ==
    LET items == IterAll(ht)
        \* a value no action stores, so that a replacement shows
        v == NInt(2)
        Replaced(ik) == [j \in 1..Len(items) |->
                            IF items[j].key = ik
                            THEN [key |-> ik, val |-> IntoZval(v)[1]]
                            ELSE items[j]]
        Appended(ik) == Append(items, [key |-> ik, val |-> IntoZval(v)[1]])
    IN /\ \A k \in InKeys :
              LET r == insert(ht, k, v)
                  ik == KeyOfEntry(HostKey(k))
              IN r.ret = "Ok" =>
                     IF get(ht, k) # None
                     THEN /\ len(r.ht) = len(ht)
                          /\ IterAll(r.ht) = Replaced(ik)
                     ELSE /\ len(r.ht) = len(ht) + 1
                          /\ IterAll(r.ht) = Appended(ik)
       /\ \A i \in IntKeys :
              LET r == insert_at_index(ht, i, v)
              IN r.ret = "Ok" =>
                     IF get_index(ht, i) # None
                     THEN /\ len(r.ht) = len(ht)
                          /\ IterAll(r.ht) = Replaced(KLong(i))
                     ELSE /\ len(r.ht) = len(ht) + 1
                          /\ IterAll(r.ht) = Appended(KLong(i))

\* index 0, then index 2, then index 0 again: two entries, index 0 first and
\* holding the last value
InsertReplacesOrAppendsWitness ==
    /\ len(ht) = 2
    /\ IterAll(ht) = <<[key |-> KLong(0), val |-> ZStr(<<"x">>)],
                       [key |-> KLong(2), val |-> ZLong(1)]>>

\* C21 as stated: has_sequential_keys() is true exactly when the set of keys
\* is {0, ..., len()-1}, whatever the order the keys were inserted in.
SequentialIffKeySet ==
    has_sequential_keys(ht) <=>
        {OrderItems[i].key : i \in 1..Len(order)} =
            {KLong(i) : i \in 0..(len(ht) - 1)}

\* C21 amended: has_sequential_keys() is true exactly when the keys, in
\* insertion order, are 0, 1, ..., len()-1 (true for the empty array); on
\* such an array it becomes false after insert_at_index at any index that is
\* neither present nor len(), and after inserting any string key that is not
\* coerced to an integer.
SequentialIffKeysInOrder ==
    /\ has_sequential_keys(ht) <=>
           \A i \in 1..Len(order) : OrderItems[i].key = KLong(i - 1)
    /\ has_sequential_keys(ht) =>
           /\ \A i \in IntKeys :
                  LET r == insert_at_index(ht, i, NInt(1))
                  IN has_sequential_keys(r.ht) <=> i \in 0..len(ht)
           /\ \A s \in StrKeys :
                  LET r == insert(ht, KStr(s), NInt(1))
                  IN (r.ret = "Ok" /\ ParseI64(s) = None) =>
                         ~ has_sequential_keys(r.ht)

\* three pushes, then an index far from 3 and a string key
SequentialIffKeysInOrderWitness ==
    /\ len(ht) = 3
    /\ ht.nNextFreeElement = 3
    /\ has_sequential_keys(ht)
    /\ ~ has_sequential_keys(insert_at_index(ht, ZEND_LONG_MAX, NInt(1)).ht)
    /\ ~ has_sequential_keys(insert(ht, KStr(<<"a">>), NInt(1)).ht)

\* C22: has_numerical_keys() is true exactly when no entry has a string key
\* (true for the empty array); it stays true under push, insert_at_index and
\* insert with a string key that is coerced to an integer, is false once a
\* string key that is not coerced is inserted, and is true again once the
\* last string-keyed entry is removed.
NumericalIffNoStringKey ==
    /\ has_numerical_keys(ht) <=> \A i \in 1..Len(order) : order[i].t # "S"
    /\ has_numerical_keys(ht) =>
           /\ has_numerical_keys(push(ht, NInt(1)).ht)
           /\ \A i \in IntKeys :
                  has_numerical_keys(insert_at_index(ht, i, NInt(1)).ht)
           /\ \A s \in StrKeys :
                  LET r == insert(ht, KStr(s), NInt(1))
                  IN r.ret = "Ok" =>
                         (has_numerical_keys(r.ht) <=> ParseI64(s) # None)
    /\ \A s \in StrKeys :
           (/\ get(ht, KStr(s)) # None
            /\ \A i \in 1..Len(order) : order[i].t = "S" => order[i].key = s)
           => has_numerical_keys(remove(ht, KStr(s)).ht)

\* index 0 and the string key "a": not numerical, and numerical again
\* without "a"
NumericalIffNoStringKeyWitness ==
    /\ len(ht) = 2
    /\ get_index(ht, 0) # None
    /\ get(ht, KStr(<<"a">>)) # None
    /\ ~ has_numerical_keys(ht)
    /\ has_numerical_keys(remove(ht, KStr(<<"a">>)).ht)
    /\ has_numerical_keys(insert(remove(ht, KStr(<<"a">>)).ht,
                                 KStr(DecStr(1)), NInt(1)).ht)

\* C23: on a carrier made by new_uninit and not yet initialised, deref (and
\* deref_mut), Clone and Debug formatting each panic, and into_raw does not.
UninitAccessPanics ==
    \A i \in 1..Len(objs) :
        (objs[i].kind = "obj" /\ objs[i].how = "uninit" /\ objs[i].payload = None)
        => /\ Owned(i) =>
                  /\ deref(objs[i]).kind = "Panic"
                  /\ clone_box(objs, i).kind = "Panic"
                  /\ fmt(objs[i]).kind = "Panic"
           /\ (olast.op = "into_raw" /\ olast.src = i) =>
                  (objs[i].owner = "raw" /\ objs[i].released = 0)

\* C24: initialize(val) leaves the payload Some(val) and returns the payload
\* stored before the call: None on a carrier from new_uninit not yet
\* initialised, Some(old) on a carrier from new(old) or initialised before;
\* the header is as it was.
InitializeReplacesPayload ==
    /\ olast.op = "initialize" =>
           LET b == olast.before[1]
               a == objs[olast.src]
           IN /\ a.payload # None
              /\ olast.ret = b.payload
              /\ a = [b EXCEPT !.payload = a.payload]
              /\ (b.how # "uninit") => (olast.ret # None)
    /\ \A i \in 1..Len(objs), v \in Payloads_T :
           (objs[i].kind = "obj" /\ Owned(i)) =>
               LET r == initialize(objs[i], v)
                   again == initialize(r.obj, 3 - v)
               IN /\ r.obj.payload = Some(v)
                  /\ r.ret = objs[i].payload
                  /\ r.obj = [objs[i] EXCEPT !.payload = Some(v)]
                  /\ objs[i].how # "uninit" => r.ret # None
                  /\ again.ret = Some(v)
                  /\ again.obj.payload = Some(3 - v)

\* a carrier from new_uninit that was initialised, and a carrier from new(1)
\* whose initialize(2) has just returned Some(1)
InitializeReplacesPayloadWitness ==
    /\ Len(objs) = 2
    /\ objs[1].how = "uninit"
    /\ objs[1].payload = Some(2)
    /\ olast.op = "initialize"
    /\ olast.src = 2
    /\ olast.ret = Some(1)
    /\ objs[2].payload = Some(2)

\* C25: every carrier from new or new_uninit has its header initialised by
\* the host, std_init then properties_init, for the class used (the override
\* class if one was given, T's class otherwise) and carries the handler
\* table of T's class metadata, also under an override class; the host's
\* default table never remains.
CarrierHeaderIsInitialised ==
    /\ \A i \in 1..Len(objs) :
           objs[i].kind = "obj" =>
               /\ objs[i].hinit = <<<<"std_init", objs[i].ce>>,
                                    <<"properties_init", objs[i].ce>>>>
               /\ objs[i].how = "new" => objs[i].ce = ClassOf(objs[i].ty)
               /\ objs[i].handlers = HandlersOf(objs[i].ty)
               /\ objs[i].handlers # 0
    /\ Len(objs) < MaxObjs =>
       \A ty \in Types, v \in {None} \cup {Some(p) : p \in Payloads_T},
          ce \in {None} \cup {Some(c) : c \in Classes} :
           LET c == internal_new(objs, ty, v, ce)[Len(objs) + 1]
               cls == IF ce = None THEN ClassOf(ty) ELSE ce[1]
           IN /\ c.ce = cls
              /\ c.hinit = <<<<"std_init", cls>>, <<"properties_init", cls>>>>
              /\ c.handlers = HandlersOf(ty)
              /\ c.payload = v
              /\ c.refcount = 1

\* a carrier of type 1 made by new_uninit under the override class 3, next
\* to a carrier made by new
CarrierHeaderIsInitialisedWitness ==
    /\ Len(objs) = 2
    /\ objs[1].how = "uninit"
    /\ objs[1].ce = 3
    /\ objs[1].ty = 1
    /\ objs[1].handlers = HandlersOf(1)
    /\ objs[2].how = "new"
    /\ objs[2].ty = 2
    /\ objs[2].handlers = HandlersOf(2)

\* C26: the conversion of an array to a Vec<T> fails exactly when a value of
\* the array does not convert to T; the error is ZvalConversion with the
\* type of the first such value in insertion order; with no such value the
\* result holds the len() values in insertion order.
VecConversionFailsOnFirstBad ==
    (vmode \in {"vec", "iter"} /\ vpc \in {"loop", "built", "back"}) =>
        LET zs == [i \in 1..vi |-> IntoZval(vxs[i])[1]]
            bad == {i \in 1..vi : FromZvalLong(zs[i]) = None}
            first == CHOOSE i \in bad : \A j \in bad : i <= j
            r == Vec_try_from_ht(ht)
        IN /\ (r.ret # "Ok") <=> (bad # {})
           /\ bad # {} => (r.ret = "ErrZvalConversion" /\ r.tag = zs[first].tag)
           /\ bad = {} =>
                  /\ Len(r.vec) = len(ht)
                  /\ r.vec = [i \in 1..vi |-> FromZvalLong(zs[i])[1]]
           /\ vpc = "back" => vout = r

\* an array of an integer, a null and a string: the conversion has failed
\* with the type of the null
VecConversionFailsOnFirstBadWitness ==
    /\ vmode = "iter"
    /\ vpc = "back"
    /\ vxs = <<NInt(1), NNull, NStr(<<"x">>)>>
    /\ vout.ret = "ErrZvalConversion"
    /\ vout.tag = "Null"

\* C27: whenever push(v) returns Ok, whatever came before (insert_at_index
\* at the largest integer key included), len() has grown by one and v is the
\* last entry of the iteration, under an integer key that was not present.
PushOkAppendsOne ==
    \A v \in Natives :
        LET r == push(ht, v)
            items == IterAll(r.ht)
        IN r.ret = "Ok" =>
               /\ len(r.ht) = len(ht) + 1
               /\ Len(items) = len(ht) + 1
               /\ items[Len(items)].val = IntoZval(v)[1]
               /\ items[Len(items)].key.t = "Long"
               /\ get_index(ht, items[Len(items)].key.n) = None

\* C28: a panic of the closure is caught inside the frame, the frame of
\* this call is left and the previous one restored, and only then is the
\* panic resumed: while the panic unwinds out of try_catch the host's
\* nearest frame is the one that was nearest before try_catch was called.
PanicResumesAfterFrameLeft ==
    /\ tc_unwind # 0 =>
           /\ tc_done.result = "Panic"
           /\ tc_done.closure = "panic"
           /\ eg_bailout = tc_done.eg_call
           /\ eg_bailout < tc_done.depth
           /\ Depth = tc_done.depth - 1
           /\ eg_bailout = Depth
    /\ (Depth > 0 /\ Top.pc = "returned" /\ ~ Top.has_bailout) =>
           /\ eg_bailout = Top.eg_call
           /\ Top.panic_ptr # 0
           /\ tc_heap[Top.panic_ptr].live
           /\ Top.cend = "panic" => tc_heap[Top.panic_ptr].kind = "Err"

\* the closure of a nested try_catch has panicked: the panic is unwinding
\* into the outer closure, whose frame is the registered one again
PanicResumesAfterFrameLeftWitness ==
    /\ tc_unwind # 0
    /\ tc_done.depth = 2
    /\ Depth = 1
    /\ eg_bailout = 1
    /\ tc_done.eg_call = 1

\* C29: with the host's bailout indicator set, try_catch returns
\* Err(CatchError) whatever the slot holds: a null slot, an Ok value or a
\* panic payload is not read, not returned and not resumed; without the
\* indicator and with a slot that is not null it never returns Err.
BailoutFlagWins ==
    /\ \A p \in 0..Len(tc_heap) :
           (p = 0 \/ tc_heap[p].live) =>
               LET r == do_try_catch(p, TRUE, tc_heap)
               IN r.kind = "Err" /\ r.heap = tc_heap
    /\ \A p \in 1..Len(tc_heap) :
           tc_heap[p].live =>
               LET r == do_try_catch(p, FALSE, tc_heap)
               IN /\ r.kind # "Err"
                  /\ r.kind = (IF tc_heap[p].kind = "Ok" THEN "Ok" ELSE "Panic")
                  /\ r.val = tc_heap[p].val
    /\ (Depth > 0 /\ Top.pc = "returned" /\ Top.has_bailout) =>
           do_try_catch(Top.panic_ptr, Top.has_bailout, tc_heap) =
               [kind |-> "Err", val |-> 0, heap |-> tc_heap]
    /\ tc_done.bailed =>
           (tc_done.result = "Err" /\ tc_done.rval = 0 /\ tc_unwind = 0)
    /\ (tc_done.result = "Err") => tc_done.bailed

\* the closure of a nested try_catch has bailed out after a statement: the
\* host has returned with the indicator set and the slot still null
BailoutFlagWinsWitness ==
    /\ Depth = 2
    /\ Top.pc = "returned"
    /\ Top.has_bailout
    /\ Top.panic_ptr = 0
    /\ Top.stmts = 1

\* the iterator states a caller reaches from `it` with at most n calls of
\* next() and next_back() in any order
RECURSIVE IterReach(_, _, _)
IterReach(t, it, n) ==
    IF n = 0 THEN {it}
    ELSE {it} \cup IterReach(t, Iter_next(t, it).it, n - 1)
              \cup IterReach(t, next_back(t, it).it, n - 1)

\* C30: every step of the iterator reads the key kind, the key and the data
\* at one cursor, the forward one for next() and the backward one for
\* next_back(), and moves only that cursor; a step returns None when the key
\* kind at its cursor is the end sentinel or invalid.
StepsReadOneCursor ==
    \A it \in IterReach(ht, Iter_new(ht), nNumUsed(ht) + 1) :
        LET f == Iter_next(ht, it)
            b == next_back(ht, it)
            kf == zend_hash_get_current_key_type_ex(ht, it.pos)
            kb == zend_hash_get_current_key_type_ex(ht, it.end_pos)
        IN /\ f.it.end_pos = it.end_pos
           /\ b.it.pos = it.pos
           /\ (kf = -1 \/ kf = 3) => f.item = None
           /\ (kb = -1 \/ kb = 3) => b.item = None
           /\ f.item # None =>
                  /\ zend_hash_get_current_data_ex(ht, it.pos) = Some(f.item[1].val)
                  /\ ArrayKey_from_zval(
                         zend_hash_get_current_key_zval_ex(ht, it.pos))
                         = Some(f.item[1].key)
           /\ b.item # None =>
                  /\ zend_hash_get_current_data_ex(ht, it.end_pos)
                         = Some(b.item[1].val)
                  /\ ArrayKey_from_zval(
                         zend_hash_get_current_key_zval_ex(ht, it.end_pos))
                         = Some(b.item[1].key)

\* C31: at every point of a walk over the unmodified array, after j calls of
\* next() and k calls of next_back() that returned an item, len() and count()
\* of the iterator are the number of items it will still yield, that is
\* len() of the array minus j minus k.
IterLenIsExact ==
    \A it \in IterReach(ht, Iter_new(ht), nNumUsed(ht) + 1) :
        LET j == it.current_num
            k == len(ht) - it.end_num
        IN /\ Iter_len(ht, it) = len(ht) - j - k
           /\ Iter_count(ht, it) = len(ht) - j - k
           /\ Iter_len(ht, it) = Len(DrainNext(ht, it))

\* C32: for every integer n of the signed range, the least and the greatest
\* included, after a successful insert_at_index(n, v) get_index(n) is v,
\* get_index(m) is what it was for every other m, the iteration reports the
\* entry once and under the key Long(n), and the decimal string of n finds
\* the same entry.
IntegerKeysSurviveCast ==
    \A n \in IntKeys :
        LET v == NInt(2)
            r == insert_at_index(ht, n, v)
            items == IterAll(r.ht)
            hits == {j \in 1..Len(items) : items[j].key = KLong(n)}
        IN r.ret = "Ok" =>
               /\ get_index(r.ht, n) = IntoZval(v)
               /\ \A m \in IntKeys \ {n} : get_index(r.ht, m) = get_index(ht, m)
               /\ Cardinality(hits) = 1
               /\ \A j \in hits : items[j].val = IntoZval(v)[1]
               /\ \A j \in 1..Len(items) :
                      items[j].key.t = "Long" =>
                          get_index(r.ht, items[j].key.n) = Some(items[j].val)
               /\ get(r.ht, KStr(ArrayKey_to_string(KLong(n)))) = IntoZval(v)
               /\ get(r.ht, KString(ArrayKey_to_string(KLong(n)))) = IntoZval(v)

\* an array that holds a negative index and the greatest one
IntegerKeysSurviveCastWitness ==
    /\ get_index(ht, -1) # None
    /\ get_index(ht, ZEND_LONG_MAX) # None
    /\ \E j \in 1..Len(IterAll(ht)) : IterAll(ht)[j].key = KLong(-1)
    /\ insert_at_index(ht, ZEND_LONG_MIN, NInt(2)).ret = "Ok"
    /\ nNumUsed(insert_at_index(ht, ZEND_LONG_MIN, NInt(2)).ht) = 3

\* C33: on every array the host can hold, for every pair (k, v) the
\* iteration yields, get(k) is Some(v) and remove(k) takes out that entry
\* and no other.
IterationAgreesWithLookup ==
    LET items == IterAll(ht)
    IN \A j \in 1..Len(items) :
           LET r == remove(ht, items[j].key)
           IN /\ get(ht, items[j].key) = Some(items[j].val)
              /\ r.ret # None
              /\ IterAll(r.ht) = SubSeq(items, 1, j - 1)
                                     \o SubSeq(items, j + 1, Len(items))

\* the walks a caller makes from w with at most n calls of next() and
\* next_back() in any order: the iterator, the items next() has yielded and
\* the items next_back() has yielded
RECURSIVE Walks(_, _, _)
Walks(t, w, n) ==
    IF n = 0 THEN {w}
    ELSE LET f == Iter_next(t, w.it)
             b == next_back(t, w.it)
             wf == [it |-> f.it,
                    fwd |-> IF f.item = None THEN w.fwd ELSE Append(w.fwd, f.item[1]),
                    bwd |-> w.bwd]
             wb == [it |-> b.it,
                    fwd |-> w.fwd,
                    bwd |-> IF b.item = None THEN w.bwd ELSE Append(w.bwd, b.item[1])]
         IN {w} \cup Walks(t, wf, n - 1) \cup Walks(t, wb, n - 1)

\* C34: on one iterator over the unmodified array, in every interleaving of
\* next() and next_back() the items of next() are a prefix of the insertion
\* order, the items of next_back() are the rest of it read from the end, no
\* entry is yielded twice, and both calls return None exactly when len()
\* items have been yielded.
InterleavedWalksMeet ==
    \A w \in Walks(ht, [it |-> Iter_new(ht), fwd |-> <<>>, bwd |-> <<>>],
                   nNumUsed(ht) + 1) :
        LET n == Len(OrderItems)
            j == Len(w.fwd)
            k == Len(w.bwd)
        IN /\ j + k <= n
           /\ w.fwd = SubSeq(OrderItems, 1, j)
           /\ \A i \in 1..k : i <= n => w.bwd[i] = OrderItems[n + 1 - i]
           /\ (j + k = n) <=> /\ Iter_next(ht, w.it).item = None
                              /\ next_back(ht, w.it).item = None

\* the same on the arrays that have no hole
InterleavedWalksMeetNoHoles == nNumUsed(ht) = len(ht) => InterleavedWalksMeet

\* C35: a live carrier whose payload is present keeps a present payload
\* through every step (initialize, deref, deref_mut, clone,
\* get_mut_zend_obj, from_zend_obj, set_zval, or the creation and release of
\* other carriers) for as long as it is not released, so deref on it does
\* not panic.
PayloadStaysPresent ==
    [][\A i \in 1..Len(objs) :
          (objs[i].kind = "obj" /\ objs[i].payload # None /\ objs[i].refcount > 0) =>
              /\ i <= Len(objs')
              /\ objs'[i].refcount > 0 =>
                     /\ objs'[i].payload # None
                     /\ deref(objs'[i]).kind = "Ok"
              /\ (olast'.src = i) => olast'.op # "deref_panic"]_vars

\* a carrier made by new_uninit and later initialised has been dereferenced,
\* beside a second such carrier
PayloadStaysPresentWitness ==
    /\ Len(objs) = 2
    /\ objs[1].how = "uninit" /\ objs[1].payload = Some(2)
    /\ objs[2].how = "uninit" /\ objs[2].payload # None
    /\ objs[1].refcount > 0
    /\ olast.op = "deref" /\ olast.src = 1 /\ olast.ret = Some(2)

\* C11: a string-keyed map none of whose keys is the canonical decimal form
\* of an integer ("01" and "+1" are such keys), converted to an array and
\* back, is the map it started from: same keys, same value per key.
MapRoundTrip ==
    (/\ vmode = "map"
     /\ \A i \in 1..Len(vks) : ~ Canonical(vks[i]) /\ ~ HasNul(vks[i])
     /\ VecIsZvals(vxs)
     /\ vpc = "back")
    => /\ vout.ret = "Ok"
       /\ vout.vec = {<<vks[i], vxs[i]>> : i \in 1..Len(vks)}

(***************************************************************************)
(* Properties of the bailout bridge.                                       *)
(***************************************************************************)
\* C4: a closure that returns r, without a bailout or a panic, makes
\* try_catch and try_catch_first return Ok(r) with r unchanged, and the
\* closure is executed exactly once.
ReturnIsOkUnchanged ==
    /\ tc_done.closure = "ret" =>
           /\ tc_done.result = "Ok"
           /\ tc_done.rval = tc_done.cval
           /\ tc_done.runs = 1
    /\ \A i \in 1..Depth : tc_stack[i].runs <= 1
    /\ (tc_outer.kind = "Ok" /\ tc_done.depth = 1) => tc_outer.val = tc_done.cval

\* try_catch_first whose closure's nested try_catch returned Ok(2)
ReturnIsOkUnchangedWitness ==
    /\ Depth = 1
    /\ Top.first
    /\ Top.sub = "Ok"
    /\ tc_done.closure = "ret"
    /\ ~ tc_done.first
    /\ tc_done.rval = 2
    /\ tc_done.runs = 1

\* C5: when the closure calls bailout(), no statement of the closure after
\* the call is reached, try_catch returns Err(CatchError), and the caller
\* goes on running.
BailoutIsCaught ==
    /\ \A i \in 1..Depth :
           tc_stack[i].bailed =>
               /\ tc_stack[i].after = 0
               /\ tc_stack[i].pc = "returned"
               /\ i = Depth
    /\ tc_done.bailed =>
           /\ tc_done.after = 0
           /\ tc_done.result = "Err"
           /\ tc_done.caller \in {"closure", "toplevel"}
    /\ tc_outer.kind # "exit"

\* a nested try_catch returned Err after a bailout and the calling closure then
\* executed a statement
BailoutIsCaughtWitness ==
    /\ tc_done.bailed
    /\ tc_done.result = "Err"
    /\ tc_done.caller = "closure"
    /\ Depth = 1
    /\ Top.pc = "closure"
    /\ Top.sub = "Err"
    /\ Top.stmts = 1
    /\ tc_done.eg_ret = 1

\* C6: when the closure panics and no bailout occurs, try_catch returns
\* neither Ok nor Err: the panic is raised again with the same payload and
\* reaches the caller's enclosing panic handler.
PanicIsResumed ==
    /\ (tc_done.closure = "panic" /\ ~ tc_done.bailed) =>
           /\ tc_done.result = "Panic"
           /\ tc_done.rval = tc_done.cval
           /\ tc_done.caller = "unwinding"
    /\ tc_unwind # 0 => tc_done.closure = "panic" /\ tc_unwind = tc_done.cval
    /\ tc_outer.kind = "Panic" =>
           tc_done.closure = "panic" /\ tc_outer.val = tc_done.cval
    /\ (Depth > 0 /\ Top.pc = "caught" /\ Top.sub = "Panic") =>
           /\ tc_done.closure = "panic"
           /\ Top.cend = "panic"
           /\ Top.cval = tc_done.cval

\* a panic of the outermost try_catch closure reached the caller's handler
\* with its payload
PanicIsResumedWitness ==
    /\ tc_outer.kind = "Panic"
    /\ tc_outer.val = 12
    /\ tc_done.closure = "panic"
    /\ tc_done.result = "Panic"
    /\ tc_done.depth = 1
    /\ tc_done.eg_call = 0

\* C15: when bailout() is called inside a try_catch closure, no destructor
\* of a value live in the closure runs: a value created before the call is
\* still un-dropped after try_catch has returned Err.
BailoutSkipsDestructors ==
    /\ \A i \in 1..Depth : tc_stack[i].bailed => tc_stack[i].dropped = 0
    /\ tc_done.bailed => tc_done.dropped = 0 /\ tc_done.result = "Err"

\* try_catch returned Err after a bailout that left one value un-dropped
BailoutSkipsDestructorsWitness ==
    /\ tc_done.bailed
    /\ tc_done.result = "Err"
    /\ tc_done.locals = 1
    /\ tc_done.dropped = 0
    /\ tc_done.depth = 1

\* C16: frames nest LIFO: a bailout is caught by the innermost active
\* try_catch and by no other, which returns Err while the enclosing calls
\* keep running; and when a try_catch returns, the registered frame is again
\* the one that was registered before the call.
FramesNestLifo ==
    /\ \A i \in 1..Depth :
           /\ tc_stack[i].bailed => i = Depth
           /\ tc_stack[i].has_bailout => (i = Depth /\ tc_stack[i].bailed)
           /\ i < Depth => tc_stack[i].pc = "calling"
           /\ tc_stack[i].pc \in {"closure", "calling", "caught"} =>
                  tc_stack[i].orig = tc_stack[i].eg_call
    /\ Running => eg_bailout = Depth
    /\ tc_done.result = "Err" <=> tc_done.bailed
    /\ tc_done.result # "none" => tc_done.eg_ret = tc_done.eg_call
    /\ (Depth > 0 /\ Top.pc = "closure" /\ Top.sub # "none") => eg_bailout = Depth

\* an inner try_catch returned Err after a bailout, and the enclosing
\* try_catch then returned Ok
FramesNestLifoWitness ==
    /\ tc_done.depth = 1
    /\ tc_done.sub = "Err"
    /\ tc_done.closure = "ret"
    /\ tc_done.result = "Ok"
    /\ tc_done.eg_ret = 0
    /\ ~ tc_done.first

(***************************************************************************)
(* Properties of the ZBox owners and the class-object carriers.            *)
(***************************************************************************)
\* C12: a ZBox that was constructed and then dropped has had its release hook
\* (zend_array_destroy, or the object release on the header) invoked exactly
\* once for its allocation; while it is owned, or after into_raw, never.
BoxDropReleasesOnce ==
    \A i \in 1..Len(objs) :
        /\ objs[i].owner = "dropped" => objs[i].released = 1
        /\ objs[i].owner \in {"box", "raw"} => objs[i].released = 0

\* a hashtable and a carrier, both dropped, each released once
BoxDropReleasesOnceWitness ==
    /\ Len(objs) = 2
    /\ objs[1].kind = "ht"
    /\ objs[2].kind = "obj"
    /\ \A i \in 1..2 : objs[i].owner = "dropped" /\ objs[i].released = 1

\* C13: for a carrier made by ZendClassObject::new(t), from_zend_obj on the
\* carrier's own header returns the carrier itself, payload included: the
\* offset subtracted is the offset of the header inside the carrier.
UpcastFindsOwnCarrier ==
    \A i \in 1..Len(objs) :
        (objs[i].kind = "obj" /\ objs[i].how = "new" /\ objs[i].refcount > 0) =>
            /\ internal_from_zend_obj(
                   objs, objs[i].ty, AddrOfStd(objs[i].ty, BaseAddr(i)))
               = Some(BaseAddr(i))
            /\ objs[i].payload # None
            /\ std_offset(objs[i].ty) = FieldOffsetStd(objs[i].ty)

\* two live carriers of the two types, made by new
UpcastFindsOwnCarrierWitness ==
    /\ Len(objs) = 2
    /\ objs[1].how = "new" /\ objs[1].ty = 1 /\ objs[1].owner = "box"
    /\ objs[2].how = "new" /\ objs[2].ty = 2 /\ objs[2].payload = Some(2)
    /\ internal_from_zend_obj(objs, 2, AddrOfStd(2, BaseAddr(2))) = Some(BaseAddr(2))

\* C14: from_zend_obj::<T> returns Some exactly for the headers whose class
\* is an instance of T's registered class and None for all others, and the
\* FromZendObject conversions turn None into Err(InvalidScope) only.
UpcastChecksClass ==
    \A ty \in Types, i \in 1..Len(objs) :
        (objs[i].kind = "obj" /\ objs[i].refcount > 0) =>
            LET h == AddrOfStd(objs[i].ty, BaseAddr(i))
                r == internal_from_zend_obj(objs, ty, h)
                c == from_zend_object(objs, ty, h)
            IN /\ (r # None) <=> instance_of(objs[i].ce, ClassOf(ty))
               /\ (r = None) <=> (c.ret = "Err")
               /\ c.ret = "Err" => c.err = "InvalidScope"
               /\ c.ret = "Ok" => c.ptr = r[1]

\* a carrier of class 2 and a carrier of the script class 3 that extends
\* class 1: type 1 accepts only the second
UpcastChecksClassWitness ==
    /\ Len(objs) = 2
    /\ objs[1].ce = 2 /\ objs[1].refcount > 0
    /\ objs[2].ce = 3 /\ objs[2].refcount > 0
    /\ from_zend_object(objs, 1, AddrOfStd(2, BaseAddr(1))).err = "InvalidScope"
    /\ from_zend_object(objs, 1, AddrOfStd(1, BaseAddr(2))).ret = "Ok"

\* C17: cloning a boxed carrier gives a second, distinct carrier with a clone
\* of the payload and the header state of the original, which is unchanged;
\* dropping the boxes sends one release per carrier, and each payload is
\* dropped exactly once.
CloneMakesSecondCarrier ==
    /\ olast.op = "clone" =>
           /\ olast.dst # olast.src
           /\ BaseAddr(olast.dst) # BaseAddr(olast.src)
           /\ objs[olast.src] = olast.before[1]
           /\ objs[olast.dst].payload = olast.before[1].payload
           /\ objs[olast.dst].props = olast.before[1].props
           /\ objs[olast.dst].owner = "box"
           /\ objs[olast.dst].refcount = 1
    /\ \A i \in 1..Len(objs) :
           objs[i].kind = "obj" =>
               /\ objs[i].owner = "dropped" =>
                      /\ objs[i].released = 1
                      /\ objs[i].refcount = 0
                      /\ objs[i].pdrops = IF objs[i].payload = None THEN 0 ELSE 1
               /\ objs[i].owner # "dropped" => objs[i].pdrops = 0

\* a carrier with changed properties and its clone, both dropped
CloneMakesSecondCarrierWitness ==
    /\ Len(objs) = 2
    /\ objs[2].how = "clone"
    /\ objs[2].props = 1
    /\ objs[2].payload = objs[1].payload
    /\ \A i \in 1..2 : objs[i].owner = "dropped" /\ objs[i].pdrops = 1

====
